---------------------------- MODULE Spec2Model ----------------------------
(***************************************************************************)
(* A model of the rftp FTP server (src/lib): the connection actor of       *)
(* Server::handle, the command handlers of ftp.rs, the data channel        *)
(* sessions and the path handling.                                         *)
(*                                                                         *)
(* Strings are sequences of one-character strings, so that the string and  *)
(* path functions the code calls (trim, split_whitespace, Path::join,      *)
(* canonicalize, starts_with, replace) are computed as the code computes   *)
(* them.                                                                   *)
(***************************************************************************)
EXTENDS Integers, Sequences, FiniteSets, TLC

(***************************************************************************)
(* Bounds of the model.                                                    *)
(***************************************************************************)
\* the number of command lines one client sends on its control connection
MaxCmds == 3
\* the number of handler tasks of one connection that run at the same time
MaxInFlight == 2
\* the number of bytes a data peer sends on one data connection
MaxData == 2
\* the length of the transfer buffer (1024 in the code), in the model's bytes
BlockSize == 2

(***************************************************************************)
(* Strings.                                                                *)
(***************************************************************************)
Last(s) == s[Len(s)]

Front(s) == SubSeq(s, 1, Len(s) - 1)

\* char::is_whitespace, for the characters the model uses
WhiteSpace == {" ", "\t", "\r", "\n"}

RECURSIVE TrimStart(_)
TrimStart(s) ==
  IF s # <<>> /\ Head(s) \in WhiteSpace THEN TrimStart(Tail(s)) ELSE s

RECURSIVE TrimEnd(_)
TrimEnd(s) ==
  IF s # <<>> /\ Last(s) \in WhiteSpace THEN TrimEnd(Front(s)) ELSE s

\* str::trim
Trim(s) == TrimEnd(TrimStart(s))

\* the first token of s (s starts with a non-whitespace character)
RECURSIVE TakeToken(_)
TakeToken(s) ==
  IF s = <<>> \/ Head(s) \in WhiteSpace THEN <<>>
  ELSE <<Head(s)>> \o TakeToken(Tail(s))

\* str::split_whitespace: the non-empty maximal runs of non-whitespace
RECURSIVE SplitWhitespace(_)
SplitWhitespace(s) ==
  LET t == TrimStart(s) IN
  IF t = <<>> THEN <<>>
  ELSE LET tok == TakeToken(t) IN
       <<tok>> \o SplitWhitespace(SubSeq(t, Len(tok) + 1, Len(t)))

\* [&str]::join(sep)
RECURSIVE JoinWith(_, _)
JoinWith(parts, sep) ==
  IF parts = <<>> THEN <<>>
  ELSE IF Len(parts) = 1 THEN parts[1]
  ELSE parts[1] \o sep \o JoinWith(Tail(parts), sep)

\* str::split(sep) for a one-character separator: empty pieces are kept
RECURSIVE SplitOn(_, _)
SplitOn(s, sep) ==
  IF \A i \in 1..Len(s) : s[i] # sep THEN <<s>>
  ELSE LET i == CHOOSE k \in 1..Len(s) :
                  s[k] = sep /\ \A j \in 1..(k - 1) : s[j] # sep
       IN <<SubSeq(s, 1, i - 1)>> \o SplitOn(SubSeq(s, i + 1, Len(s)), sep)

IsPrefix(p, s) == Len(p) <= Len(s) /\ SubSeq(s, 1, Len(p)) = p

\* str::replace(pat, to): every non-overlapping match, leftmost first
RECURSIVE Replace(_, _, _)
Replace(s, pat, to) ==
  IF s = <<>> THEN <<>>
  ELSE IF pat # <<>> /\ IsPrefix(pat, s)
       THEN to \o Replace(SubSeq(s, Len(pat) + 1, Len(s)), pat, to)
       ELSE <<Head(s)>> \o Replace(Tail(s), pat, to)

\* str::trim_start_matches(c)
RECURSIVE TrimStartMatches(_, _)
TrimStartMatches(s, c) ==
  IF s # <<>> /\ Head(s) = c THEN TrimStartMatches(Tail(s), c) ELSE s

Digits == <<"0", "1", "2", "3", "4", "5", "6", "7", "8", "9">>

IsDigit(c) == \E d \in 1..10 : Digits[d] = c

DigitVal(c) == (CHOOSE d \in 1..10 : Digits[d] = c) - 1

RECURSIVE DecValue(_)
DecValue(s) ==
  IF s = <<>> THEN 0 ELSE 10 * DecValue(Front(s)) + DigitVal(Last(s))

\* decimal strings of equal length compare as their digit sequences do
RECURSIVE DecLeq(_, _)
DecLeq(a, b) ==
  IF a = <<>> THEN TRUE
  ELSE IF DigitVal(Head(a)) # DigitVal(Head(b))
       THEN DigitVal(Head(a)) < DigitVal(Head(b))
       ELSE DecLeq(Tail(a), Tail(b))

\* str::parse::<uN>(), max being the decimal string of the type's largest
\* value: -1 stands for Err (nothing but digits after an optional "+", and
\* no overflow)
ParseUnsigned(s, max) ==
  LET t == IF s # <<>> /\ Head(s) = "+" THEN Tail(s) ELSE s
      z == TrimStartMatches(t, "0") IN
  IF t = <<>> \/ \E i \in 1..Len(t) : ~IsDigit(t[i]) THEN -1
  ELSE IF Len(z) > Len(max) \/ (Len(z) = Len(max) /\ ~DecLeq(z, max)) THEN -1
  ELSE DecValue(z)

\* u16::to_string
RECURSIVE DecStr(_)
DecStr(n) ==
  IF n < 10 THEN <<Digits[n + 1]>> ELSE DecStr(n \div 10) \o <<Digits[(n % 10) + 1]>>

Min(a, b) == IF a < b THEN a ELSE b

(***************************************************************************)
(* Paths (std::path::Path) and the file system.                            *)
(*                                                                         *)
(* A path is a string.  A resolved location is the sequence of the names   *)
(* below the file system's "/" (<<>> is "/" itself).  The file system      *)
(* holds no symbolic links.                                                *)
(***************************************************************************)
Slash == <<"/">>

Dot == <<".">>

DotDot == <<".", ".">>

IsAbsolute(p) == p # <<>> /\ Head(p) = "/"

\* Path::join / PathBuf::push: an absolute argument replaces the base
PathJoin(base, p) ==
  IF IsAbsolute(p) THEN p
  ELSE IF base = <<>> \/ Last(base) = "/" THEN base \o p
  ELSE base \o Slash \o p

RECURSIVE DropEmptyAndDot(_)
DropEmptyAndDot(parts) ==
  IF parts = <<>> THEN <<>>
  ELSE IF Head(parts) = <<>> \/ Head(parts) = Dot
       THEN DropEmptyAndDot(Tail(parts))
       ELSE <<Head(parts)>> \o DropEmptyAndDot(Tail(parts))

\* Path::components: RootDir is Slash; repeated separators, a trailing
\* separator and every "." but a leading one are normalised away; ".." stays
Components(p) ==
  LET parts == SplitOn(p, "/") IN
  IF p = <<>> THEN <<>>
  ELSE IF IsAbsolute(p) THEN <<Slash>> \o DropEmptyAndDot(parts)
  ELSE IF Head(parts) = Dot THEN <<Dot>> \o DropEmptyAndDot(Tail(parts))
  ELSE DropEmptyAndDot(parts)

\* Path::starts_with: whole components, nothing is resolved
StartsWith(p, base) == IsPrefix(Components(base), Components(p))

\* the string of a resolved location (PathBuf::to_str of a canonical path)
RECURSIVE LocStr(_)
LocStr(loc) ==
  IF loc = <<>> THEN Slash
  ELSE IF Len(loc) = 1 THEN Slash \o loc[1]
  ELSE LocStr(Front(loc)) \o Slash \o Last(loc)

NoLoc == [ok |-> FALSE, loc |-> <<>>]

IsDir(fs, loc) == loc \in fs.dirs

IsFile(fs, loc) == loc \in DOMAIN fs.files

\* the kernel's walk of the components cs from the location cur
RECURSIVE Walk(_, _, _)
Walk(fs, cur, cs) ==
  IF cs = <<>> THEN [ok |-> TRUE, loc |-> cur]
  ELSE IF ~IsDir(fs, cur) THEN NoLoc
  ELSE IF Head(cs) = Slash THEN Walk(fs, <<>>, Tail(cs))
  ELSE IF Head(cs) = Dot THEN Walk(fs, cur, Tail(cs))
  ELSE IF Head(cs) = DotDot
       THEN Walk(fs, IF cur = <<>> THEN <<>> ELSE Front(cur), Tail(cs))
  ELSE LET nxt == Append(cur, Head(cs)) IN
       IF IsDir(fs, nxt) \/ IsFile(fs, nxt) THEN Walk(fs, nxt, Tail(cs))
       ELSE NoLoc

\* the location an absolute path names, if it names one
Resolve(fs, p) == IF IsAbsolute(p) THEN Walk(fs, <<>>, Components(p)) ELSE NoLoc

\* Path::exists
Exists(fs, p) == Resolve(fs, p).ok

\* where open(O_CREAT) or mkdir would make the last name of p: the parent
\* must resolve to a directory and the last component must be a name
NewLoc(fs, p) ==
  LET cs == Components(p) IN
  IF cs = <<>> \/ Last(cs) \in {Slash, Dot, DotDot} THEN NoLoc
  ELSE LET par == IF IsAbsolute(p) THEN Walk(fs, <<>>, Front(cs)) ELSE NoLoc IN
       IF par.ok /\ IsDir(fs, par.loc)
       THEN [ok |-> TRUE, loc |-> Append(par.loc, Last(cs))]
       ELSE NoLoc

\* a pop that leaves the path as it is
PopPathKeep(p) == [ok |-> TRUE, path |-> p]

\* PathBuf::pop: FALSE when the path has no parent, else the parent
PopPath(p) ==
  LET cs == Components(p) IN
  IF cs = <<>> \/ Last(cs) = Slash THEN [ok |-> FALSE, path |-> p]
  ELSE [ok |-> TRUE,
        path |-> IF Front(cs) = <<Slash>> THEN Slash
                 ELSE IF Front(cs) # <<>> /\ Head(Front(cs)) = Slash
                      THEN Slash \o JoinWith(Tail(Front(cs)), Slash)
                      ELSE JoinWith(Front(cs), Slash)]

(***************************************************************************)
(* The served tree: --folder is /r.  /e and /e/p lie outside of it.        *)
(***************************************************************************)
\* Server.root, canonicalised in Server::new
root == <<"/", "r">>

nR == <<"r">>
nD == <<"d">>
nE == <<"e">>
nF == <<"f">>
nP == <<"p">>

InitFs ==
  [dirs  |-> {<<>>, <<nR>>, <<nR, nD>>, <<nE>>},
   files |-> (<<nR, nF>> :> <<1, 2, 3>>) @@ (<<nE, nP>> :> <<7>>)]

\* the location lies in the served tree
InsideRoot(loc) == IsPrefix(<<nR>>, loc)

(***************************************************************************)
(* Commands (commands.rs).                                                 *)
(***************************************************************************)
\* the match arms of parse_command: the verb as it must be spelled, and how
\* the arm treats the argument: "str" keeps it, "none" drops it, "opt" is
\* empty_to_some, "port" decodes h1,h2,h3,h4,p1,p2 and "u64" parses a number
VerbTable ==
  <<[verb |-> "USER", chars |-> <<"U", "S", "E", "R">>, kind |-> "str"],
    [verb |-> "PASS", chars |-> <<"P", "A", "S", "S">>, kind |-> "str"],
    [verb |-> "PORT", chars |-> <<"P", "O", "R", "T">>, kind |-> "port"],
    [verb |-> "PASV", chars |-> <<"P", "A", "S", "V">>, kind |-> "none"],
    [verb |-> "RETR", chars |-> <<"R", "E", "T", "R">>, kind |-> "str"],
    [verb |-> "STOR", chars |-> <<"S", "T", "O", "R">>, kind |-> "str"],
    [verb |-> "ABOR", chars |-> <<"A", "B", "O", "R">>, kind |-> "none"],
    [verb |-> "QUIT", chars |-> <<"Q", "U", "I", "T">>, kind |-> "none"],
    [verb |-> "SYST", chars |-> <<"S", "Y", "S", "T">>, kind |-> "none"],
    [verb |-> "TYPE", chars |-> <<"T", "Y", "P", "E">>, kind |-> "str"],
    [verb |-> "RNFR", chars |-> <<"R", "N", "F", "R">>, kind |-> "str"],
    [verb |-> "RNTO", chars |-> <<"R", "N", "T", "O">>, kind |-> "str"],
    [verb |-> "PWD", chars |-> <<"P", "W", "D">>, kind |-> "none"],
    [verb |-> "CWD", chars |-> <<"C", "W", "D">>, kind |-> "str"],
    [verb |-> "MKD", chars |-> <<"M", "K", "D">>, kind |-> "str"],
    [verb |-> "RMD", chars |-> <<"R", "M", "D">>, kind |-> "str"],
    [verb |-> "LIST", chars |-> <<"L", "I", "S", "T">>, kind |-> "opt"],
    [verb |-> "REST", chars |-> <<"R", "E", "S", "T">>, kind |-> "none"],
    [verb |-> "DELE", chars |-> <<"D", "E", "L", "E">>, kind |-> "str"],
    [verb |-> "STAT", chars |-> <<"S", "T", "A", "T">>, kind |-> "opt"],
    [verb |-> "STOU", chars |-> <<"S", "T", "O", "U">>, kind |-> "none"],
    [verb |-> "APPE", chars |-> <<"A", "P", "P", "E">>, kind |-> "str"],
    [verb |-> "ALLO", chars |-> <<"A", "L", "L", "O">>, kind |-> "u64"],
    [verb |-> "FEAT", chars |-> <<"F", "E", "A", "T">>, kind |-> "none"],
    [verb |-> "CDUP", chars |-> <<"C", "D", "U", "P">>, kind |-> "none"],
    [verb |-> "MDTM", chars |-> <<"M", "D", "T", "M">>, kind |-> "str"],
    [verb |-> "NLST", chars |-> <<"N", "L", "S", "T">>, kind |-> "opt"]>>

U16Modulus == 65536

\* u8::MAX and u64::MAX, as decimal strings
U8Max == <<"2", "5", "5">>

U64Max ==
  <<"1", "8", "4", "4", "6", "7", "4", "4", "0", "7",
    "3", "7", "0", "9", "5", "5", "1", "6", "1", "5">>

\* a parsed command; verb "PANIC" stands for a panic in parse_command
Cmd(verb, arg, some, ip, n) ==
  [verb |-> verb, arg |-> arg, some |-> some, ip |-> ip, n |-> n]

Panic == Cmd("PANIC", <<>>, FALSE, <<>>, 0)

\* a PORT arm that computes the port in eight bits
ParsePortNarrow(arg) ==
  LET nums == [i \in 1..Len(SplitOn(arg, ",")) |->
                 ParseUnsigned(SplitOn(arg, ",")[i], U8Max)] IN
  IF Len(nums) < 6 \/ \E i \in 1..6 : nums[i] = -1 THEN Panic
  ELSE Cmd("PORT", <<>>, FALSE, SubSeq(nums, 1, 4), (nums[5] * 256 + nums[6]) % 256)

\* the PORT arm: every piece is parsed as a u8 (unwrap), the first four make
\* the address, the next two the port p1 * 256 + p2 in u16 arithmetic; the
\* address text must parse as a SocketAddr (unwrap)
ParsePort(arg) ==
  LET nums == [i \in 1..Len(SplitOn(arg, ",")) |->
                 ParseUnsigned(SplitOn(arg, ",")[i], U8Max)] IN
  IF Len(nums) < 6 \/ \E i \in 1..6 : nums[i] = -1 THEN Panic
  ELSE Cmd("PORT", <<>>, FALSE, SubSeq(nums, 1, 4),
           (nums[5] * 256 + nums[6]) % U16Modulus)

\* parse_command
parse_command(req) ==
  LET toks == SplitWhitespace(Trim(req)) IN
  IF toks = <<>> THEN Panic
  ELSE LET cmd == toks[1]
           arg == JoinWith(Tail(toks), <<" ">>) IN
       IF \E i \in 1..Len(VerbTable) : VerbTable[i].chars = cmd
       THEN LET row == VerbTable[CHOOSE i \in 1..Len(VerbTable) :
                                   VerbTable[i].chars = cmd] IN
            CASE row.kind = "str" -> Cmd(row.verb, arg, TRUE, <<>>, 0)
              [] row.kind = "none" -> Cmd(row.verb, <<>>, FALSE, <<>>, 0)
              [] row.kind = "opt" -> Cmd(row.verb, arg, arg # <<>>, <<>>, 0)
              [] row.kind = "port" -> ParsePort(arg)
              [] row.kind = "u64" ->
                   IF ParseUnsigned(arg, U64Max) = -1 THEN Panic
                   ELSE Cmd(row.verb, <<>>, FALSE, <<>>, ParseUnsigned(arg, U64Max))
       ELSE Cmd("NOOP", <<>>, FALSE, <<>>, 0)

(***************************************************************************)
(* The command lines a client sends, as read from the control socket.      *)
(***************************************************************************)
lnUser == <<"U", "S", "E", "R", " ", "a", "\r", "\n">>

lnPass == <<"P", "A", "S", "S", " ", "x", "\r", "\n">>

lnNoop == <<"N", "O", "O", "P", "\r", "\n">>

lnPwd == <<"P", "W", "D", "\r", "\n">>

lnSyst == <<"S", "Y", "S", "T", "\r", "\n">>

lnCwdD == <<"C", "W", "D", " ", "d", "\r", "\n">>

lnCwdUp == <<"C", "W", "D", " ", ".", ".", "\r", "\n">>

lnCwdUpUp == <<"C", "W", "D", " ", ".", ".", "/", ".", ".", "\r", "\n">>

lnCwdNone == <<"C", "W", "D", " ", "z", "\r", "\n">>

lnCwdSlash == <<"C", "W", "D", " ", "/", "\r", "\n">>

lnCwdAbsE == <<"C", "W", "D", " ", "/", "e", "\r", "\n">>

lnCdup == <<"C", "D", "U", "P", "\r", "\n">>

lnQuit == <<"Q", "U", "I", "T", "\r", "\n">>

lnPort == <<"P", "O", "R", "T", " ", "1", ",", "2", ",", "3", ",", "4", ",", "5", ",", "6", "\r", "\n">>

lnPasv == <<"P", "A", "S", "V", "\r", "\n">>

lnRetrF == <<"R", "E", "T", "R", " ", "f", "\r", "\n">>

lnRetrG == <<"R", "E", "T", "R", " ", "g", "\r", "\n">>

lnRetrNone == <<"R", "E", "T", "R", " ", "z", "\r", "\n">>

lnRetrOut == <<"R", "E", "T", "R", " ", ".", ".", "/", "e", "/", "p", "\r", "\n">>

lnStorG == <<"S", "T", "O", "R", " ", "g", "\r", "\n">>

lnStorF == <<"S", "T", "O", "R", " ", "f", "\r", "\n">>

lnStorOut == <<"S", "T", "O", "R", " ", ".", ".", "/", "e", "/", "x", "\r", "\n">>

lnAppeF == <<"A", "P", "P", "E", " ", "f", "\r", "\n">>

lnStou == <<"S", "T", "O", "U", "\r", "\n">>

lnList == <<"L", "I", "S", "T", "\r", "\n">>

lnListOut == <<"L", "I", "S", "T", " ", ".", ".", "/", "e", "\r", "\n">>

lnNlst == <<"N", "L", "S", "T", "\r", "\n">>

lnAbor == <<"A", "B", "O", "R", "\r", "\n">>

lnDeleF == <<"D", "E", "L", "E", " ", "f", "\r", "\n">>

lnDeleOut == <<"D", "E", "L", "E", " ", ".", ".", "/", "e", "/", "p", "\r", "\n">>

lnMkdG == <<"M", "K", "D", " ", "g", "\r", "\n">>

lnMkdOut == <<"M", "K", "D", " ", ".", ".", "/", "e", "/", "g", "\r", "\n">>

lnRmdD == <<"R", "M", "D", " ", "d", "\r", "\n">>

lnRmdOut == <<"R", "M", "D", " ", ".", ".", "/", "e", "\r", "\n">>

lnFeat == <<"F", "E", "A", "T", "\r", "\n">>

lnStat == <<"S", "T", "A", "T", "\r", "\n">>

lnStatD == <<"S", "T", "A", "T", " ", "d", "\r", "\n">>

lnStatOut == <<"S", "T", "A", "T", " ", ".", ".", "/", "e", "\r", "\n">>

(***************************************************************************)
(* The state of one control connection and of what it shares.              *)
(***************************************************************************)
VARIABLES
  actor,    \* where Server::handle stands: "read", "quit", "done", "panicked"
  client,   \* the client's end of the control connection
  inMap,    \* Server.user_map holds the User of this connection
  user,     \* the User behind Arc<Mutex<User>>
  ulock,    \* the owner of the User mutex (0: free)
  clock,    \* the owner of the control writer's mutex (0: free)
  ctlOpen,  \* the control socket's write side is not shut down
  ctrl,     \* what was written to the control socket, one write_all each
  task,     \* the commands received, with the handler task of each
  sock,     \* the data sockets, by the command that made them
  lsn,      \* the PASV listeners with their accept tasks, by command
  fsys      \* the file system

vars ==
  <<actor, client, inMap, user, ulock, clock, ctlOpen, ctrl, task, sock, lsn, fsys>>

sAnonymous == <<"a", "n", "o", "n", "y", "m", "o", "u", "s">>

\* the fields offset and aborted of a TransferSession, which ftp.rs reads
\* and writes and session.rs does not declare, as a new session has them
SessionFlags == [offset |-> 0, aborted |-> FALSE]

\* User.session = None
NoSession ==
  [sid |-> 0, mode |-> "None", finished |-> FALSE, file_name |-> <<>>] @@ SessionFlags

\* TransferSession::new, for the data socket sid
NewSession(sid, mode) ==
  [sid |-> sid, mode |-> mode, finished |-> FALSE, file_name |-> <<>>] @@ SessionFlags

\* User::new_anonymous
new_anonymous ==
  [username |-> sAnonymous, status |-> "Active", pwd |-> <<>>,
   trans_type |-> "ASCII", session |-> NoSession]

NoFile == [loc |-> <<>>, pos |-> 0, wr |-> FALSE, open |-> FALSE]

\* the commands whose handlers run without a login, by the specification
AuthFree == {"USER", "PASS", "QUIT", "NOOP", "FEAT", "SYST"}

\* the places in the control stream of the replies to the command t
RepliesTo(t) == {i \in DOMAIN ctrl : ctrl[i].id = t}

DataVerbs == {"LIST", "NLST", "RETR", "STOR", "APPE", "STOU"}

\* a transfer between its 150 reply and the end of its handling
InTransfer(t) ==
  /\ t \in DOMAIN task
  /\ task[t].cmd.verb \in DataVerbs
  /\ task[t].pc # "done"
  /\ \E i \in RepliesTo(t) : ctrl[i].code = 150

\* a command as Server::handle took it in.  st0, pend0 and xfer0 record what
\* held when the line was read: the User's status, whether a PASV that was
\* answered still waited for its data connection, and the transfers that
\* were under way; saw records that the handler read session.aborted as
\* true at the top of its loop
NewTask(cmd, pc) ==
  [cmd |-> cmd, pc |-> pc, path |-> <<>>, off |-> 0, file |-> NoFile,
   err |-> "", saw |-> FALSE, st0 |-> user.status,
   xfer0 |-> {t \in DOMAIN task : InTransfer(t)},
   pend0 |-> \E k \in DOMAIN lsn : lsn[k].st \in {"listening", "connected"}]

Greeting ==
  [id |-> 0, code |-> 220, text |-> "rftp.whiteffire.cn FTP server ready.",
   arg |-> <<>>, crlf |-> TRUE]

Init ==
  /\ actor = "read"
  /\ client = "open"
  /\ inMap = TRUE
  /\ user = new_anonymous
  /\ ulock = 0
  /\ clock = 0
  /\ ctlOpen = TRUE
  /\ ctrl = <<Greeting>>
  /\ task = <<>>
  /\ sock = <<>>
  /\ lsn = <<>>
  /\ fsys = InitFs

Tasks == DOMAIN task

Running == {t \in Tasks : task[t].pc # "done"}

At(t, pc) == t \in Tasks /\ task[t].pc = pc

\* one write_all of a reply line: arg is the text the line is formatted with
ReplyArg(t, code, text, arg) ==
  [id |-> t, code |-> code, text |-> text, arg |-> arg, crlf |-> TRUE]

Reply(t, code, text) == ReplyArg(t, code, text, <<>>)

\* the handler task is over: its locals are dropped
Finished(t) ==
  [task[t] EXCEPT !.pc = "done", !.path = <<>>, !.off = 0, !.file = NoFile, !.err = ""]

\* the handler returned Err(msg) to the task Server::handle spawned
Failed(t, msg) ==
  [task[t] EXCEPT !.pc = "fail", !.path = <<>>, !.off = 0, !.file = NoFile, !.err = msg]

Goto(t, pc) == [task[t] EXCEPT !.pc = pc]

\* dropping the guard of the User mutex, if t holds it
Unlocked(t) == IF ulock = t THEN 0 ELSE ulock

\* control.lock().await.write_all(..).await? by a handler that does not hold
\* the writer: the mutex must be free, and writing to a socket whose write
\* side was shut down fails, which `?` returns from the handler.  next is the
\* task after a successful write; unlock tells whether the handler then
\* drops the User guard, which an early return always does
WriteCtl(t, replies, next, unlock) ==
  /\ clock = 0
  /\ IF ctlOpen
     THEN /\ ctrl' = ctrl \o replies
          /\ task' = [task EXCEPT ![t] = next]
          /\ ulock' = IF unlock THEN Unlocked(t) ELSE ulock
     ELSE /\ ctrl' = ctrl
          /\ task' = [task EXCEPT ![t] = Failed(t, "Broken pipe")]
          /\ ulock' = Unlocked(t)

\* the first state of the handler Server::dispatch calls for a verb
Entry(verb) ==
  CASE verb = "USER" -> "user"
    [] verb = "PASS" -> "pass"
    [] verb = "NOOP" -> "noop"
    [] verb = "SYST" -> "system_info"
    [] verb = "PWD" -> "pwd"
    [] verb = "CWD" -> "cwd"
    [] verb = "CDUP" -> "cd_up"
    [] verb = "PORT" -> "port_mode"
    [] verb = "PASV" -> "passive_mode"
    [] verb = "RETR" -> "retrieve"
    [] verb = "STOR" -> "store_file"
    [] verb = "STOU" -> "store_file"
    [] verb = "APPE" -> "append"
    [] verb = "LIST" -> "list_files"
    [] verb = "NLST" -> "list_files"
    [] verb = "ABOR" -> "abort"
    [] verb = "DELE" -> "delete"
    [] verb = "MKD" -> "make_dir"
    [] verb = "RMD" -> "remove_dir"
    [] verb = "FEAT" -> "feat"
    [] verb = "STAT" -> "status"
    [] verb = "REST" -> "restart"
    [] verb = "RNFR" -> "rename_from"
    [] verb = "RNTO" -> "rename_to"
    [] OTHER -> "unmodelled"

(***************************************************************************)
(* Server::handle: one turn of the loop.  The line is read and parsed; a   *)
(* panic of parse_command ends the actor; QUIT is run by the actor itself  *)
(* and every other command is handed to a task of its own, after which the *)
(* actor reads again without waiting for that task.  max is the number of  *)
(* commands the connection is followed for.                                *)
(***************************************************************************)
handle_within(line, max) ==
  /\ actor = "read"
  /\ client = "open"
  /\ Len(task) < max
  /\ Cardinality(Running) < MaxInFlight
  /\ LET cmd == parse_command(line) IN
     IF ~inMap
     THEN actor' = "done" /\ task' = task
     ELSE IF cmd.verb = "PANIC"
     THEN actor' = "panicked" /\ task' = Append(task, NewTask(cmd, "done"))
     ELSE IF cmd.verb = "QUIT"
     THEN actor' = "quit" /\ task' = Append(task, NewTask(cmd, "quit"))
     ELSE actor' = "read" /\ task' = Append(task, NewTask(cmd, Entry(cmd.verb)))
  /\ UNCHANGED <<client, inMap, user, ulock, clock, ctlOpen, ctrl, sock, lsn, fsys>>

handle(line) == handle_within(line, MaxCmds)

\* the spawned task's error branch: "550 Error occurs: <e>", with no CRLF
dispatch_error(t) ==
  /\ At(t, "fail")
  /\ clock = 0
  /\ ctrl' = IF ctlOpen
             THEN Append(ctrl, [id |-> t, code |-> 550, text |-> task[t].err,
                                arg |-> <<>>, crlf |-> FALSE])
             ELSE ctrl
  /\ task' = [task EXCEPT ![t] = Finished(t)]
  /\ UNCHANGED <<actor, client, inMap, user, ulock, clock, ctlOpen, sock, lsn, fsys>>

(***************************************************************************)
(* The handlers of ftp.rs.  A handler is one action; its arms are the      *)
(* stretches of the function between two awaits that can make it wait      *)
(* (a mutex, the data socket), named by task[t].pc.                        *)
(***************************************************************************)
h_noop(t) ==
  /\ At(t, "noop")
  /\ WriteCtl(t, <<Reply(t, 200, "NOOP ok.")>>, Finished(t), TRUE)
  /\ UNCHANGED <<actor, client, inMap, user, clock, ctlOpen, sock, lsn, fsys>>

h_system_info(t) ==
  /\ At(t, "system_info")
  /\ WriteCtl(t, <<Reply(t, 215, "UNIX Type: L8")>>, Finished(t), TRUE)
  /\ UNCHANGED <<actor, client, inMap, user, clock, ctlOpen, sock, lsn, fsys>>

h_user(t) ==
  /\ t \in Tasks
  /\ CASE task[t].pc = "user" ->
            /\ ulock = 0
            /\ ulock' = t
            /\ user' = [user EXCEPT !.username = task[t].cmd.arg, !.status = "Logging"]
            /\ task' = [task EXCEPT ![t] = Goto(t, "user:say")]
            /\ ctrl' = ctrl
       [] task[t].pc = "user:say" ->
            /\ WriteCtl(t, <<Reply(t, 331, "User name okay, need password.")>>,
                        Finished(t), TRUE)
            /\ user' = user
       [] OTHER -> FALSE
  /\ UNCHANGED <<actor, client, inMap, clock, ctlOpen, sock, lsn, fsys>>

\* the guard of the User mutex is dropped before the reply is written
h_pass(t) ==
  /\ t \in Tasks
  /\ CASE task[t].pc = "pass" ->
            /\ ulock = 0
            /\ user' = [user EXCEPT !.status = "Active"]
            /\ task' = [task EXCEPT ![t] = Goto(t, "pass:say")]
            /\ UNCHANGED <<ulock, ctrl>>
       [] task[t].pc = "pass:say" ->
            /\ WriteCtl(t, <<Reply(t, 230, "User logged in, proceed.")>>,
                        Finished(t), TRUE)
            /\ user' = user
       [] OTHER -> FALSE
  /\ UNCHANGED <<actor, client, inMap, clock, ctlOpen, sock, lsn, fsys>>

h_pwd(t) ==
  /\ t \in Tasks
  /\ CASE task[t].pc = "pwd" ->
            /\ ulock = 0
            /\ ulock' = t
            /\ task' = [task EXCEPT ![t] = Goto(t, "pwd:say")]
            /\ ctrl' = ctrl
       [] task[t].pc = "pwd:say" ->
            WriteCtl(t, <<ReplyArg(t, 257, "is the current directory.", user.pwd)>>,
                     Finished(t), TRUE)
       [] OTHER -> FALSE
  /\ UNCHANGED <<actor, client, inMap, user, clock, ctlOpen, sock, lsn, fsys>>

\* Path::new(&self.root).join(&user.pwd).join(name)
UserPath(name) == PathJoin(PathJoin(root, user.pwd), name)

\* new_path.to_str() with every occurrence of the root's text replaced by "."
PwdOf(str) == Replace(str, root, Dot)

\* Server::cwd.  A target outside the root is answered 550 twice, and the
\* function goes on to store it and to answer 250
h_cwd(t) ==
  /\ t \in Tasks
  /\ LET dir_name == TrimStartMatches(task[t].cmd.arg, "/")
         new_path == Resolve(fsys, UserPath(dir_name)) IN
     CASE task[t].pc = "cwd" ->
            /\ ulock = 0
            /\ ulock' = t
            /\ ctrl' = ctrl
            /\ IF dir_name = <<>>
               THEN /\ user' = [user EXCEPT !.pwd = Dot]
                    /\ task' = [task EXCEPT ![t] = Goto(t, "cwd:ok")]
               ELSE IF dir_name = Dot
               THEN /\ user' = user
                    /\ task' = [task EXCEPT ![t] = Goto(t, "cwd:same")]
               ELSE IF ~new_path.ok
               THEN /\ user' = user
                    /\ task' = [task EXCEPT ![t] = Goto(t, "cwd:err")]
               ELSE IF ~StartsWith(LocStr(new_path.loc), root)
               THEN /\ user' = user
                    /\ task' = [task EXCEPT ![t] =
                                  [Goto(t, "cwd:deny1") EXCEPT !.path = LocStr(new_path.loc)]]
               ELSE /\ user' = [user EXCEPT !.pwd = PwdOf(LocStr(new_path.loc))]
                    /\ task' = [task EXCEPT ![t] = Goto(t, "cwd:ok")]
       [] task[t].pc = "cwd:deny1" ->
            /\ WriteCtl(t, <<Reply(t, 550, "Permission denied.")>>,
                        Goto(t, "cwd:deny2"), FALSE)
            /\ user' = user
       [] task[t].pc = "cwd:deny2" ->
            /\ WriteCtl(t, <<Reply(t, 550, "Permission denied.")>>,
                        [Goto(t, "cwd:ok") EXCEPT !.path = <<>>], FALSE)
            /\ user' = IF ctlOpen THEN [user EXCEPT !.pwd = PwdOf(task[t].path)]
                       ELSE user
       [] task[t].pc = "cwd:ok" ->
            /\ WriteCtl(t, <<Reply(t, 250, "Requested file action okay, completed.")>>,
                        Finished(t), TRUE)
            /\ user' = user
       [] task[t].pc = "cwd:same" ->
            /\ WriteCtl(t, <<Reply(t, 250, "PWD not changed.")>>, Finished(t), TRUE)
            /\ user' = user
       [] task[t].pc = "cwd:err" ->
            /\ WriteCtl(t, <<Reply(t, 550, "Permission denied.")>>, Finished(t), TRUE)
            /\ user' = user
       [] OTHER -> FALSE
  /\ UNCHANGED <<actor, client, inMap, clock, ctlOpen, sock, lsn, fsys>>

\* Server::cd_up.  Both refusals fall through to the 250 reply
h_cd_up(t) ==
  /\ t \in Tasks
  /\ LET popped == PopPath(PathJoin(root, user.pwd))
         new_path == Resolve(fsys, popped.path) IN
     CASE task[t].pc = "cd_up" ->
            /\ ulock = 0
            /\ ctrl' = ctrl
            /\ IF popped.ok /\ ~new_path.ok
               THEN /\ task' = [task EXCEPT ![t] = Failed(t, "No such file or directory")]
                    /\ UNCHANGED <<user, ulock>>
               ELSE IF popped.ok /\ StartsWith(LocStr(new_path.loc), root)
               THEN /\ user' = [user EXCEPT !.pwd = PwdOf(LocStr(new_path.loc))]
                    /\ ulock' = t
                    /\ task' = [task EXCEPT ![t] = Goto(t, "cd_up:ok")]
               ELSE /\ user' = user
                    /\ ulock' = t
                    /\ task' = [task EXCEPT ![t] = Goto(t, "cd_up:deny")]
       [] task[t].pc = "cd_up:deny" ->
            /\ WriteCtl(t, <<Reply(t, 550, "Permission denied.")>>,
                        Goto(t, "cd_up:ok"), FALSE)
            /\ user' = user
       [] task[t].pc = "cd_up:ok" ->
            /\ WriteCtl(t, <<Reply(t, 250, "Directory successfully changed.")>>,
                        Finished(t), TRUE)
            /\ user' = user
       [] OTHER -> FALSE
  /\ UNCHANGED <<actor, client, inMap, clock, ctlOpen, sock, lsn, fsys>>

(***************************************************************************)
(* Data connections.                                                       *)
(***************************************************************************)
\* a connected data socket: what the peer did to it (peer), the bytes the
\* peer sent that were not read yet (inq), how many it sent (sent) and all of
\* them in order (all), the bytes and the listing lines written to it (out,
\* listing), whether its write side was shut down (shut) and whether it was
\* dropped (closed)
NewSock ==
  [peer |-> "open", inq |-> <<>>, sent |-> 0, all |-> <<>>, out |-> <<>>, listing |-> {},
   shut |-> FALSE, closed |-> FALSE]

\* write_all on a data socket fails once the peer reset the connection or
\* the write side was shut down
CanWrite(s) == sock[s].peer # "reset" /\ ~sock[s].shut

\* the results shutdown can have (TRUE: Ok).  On a connection the peer reset
\* the system call fails with ENOTCONN, which the runtime hands on as an
\* error or takes for success, by its version
ShutdownResults(s) == IF sock[s].peer = "reset" THEN {TRUE, FALSE} ELSE {TRUE}

\* the data sockets after the User's session, if any, was dropped: the
\* session owns its socket, so the socket is closed
Dropped ==
  IF user.session.sid # 0
  THEN [sock EXCEPT ![user.session.sid].closed = TRUE]
  ELSE sock

\* Server.host, and the ports generate_pasv_addr scans from
host == <<"1", "2", "7", ".", "0", ".", "0", ".", "1">>

PasvPortBase == 49152

\* generate_pasv_addr: the first port no listener of the server holds
PasvPort ==
  CHOOSE p \in PasvPortBase..(PasvPortBase + MaxCmds) :
    /\ \A k \in DOMAIN lsn : lsn[k].st # "done" => lsn[k].port # p
    /\ \A q \in PasvPortBase..(p - 1) :
         \E k \in DOMAIN lsn : lsn[k].st # "done" /\ lsn[k].port = q

\* a 227 text with the two bytes of the port in the wrong order
PasvTextSwapped(port) ==
  Replace(host, Dot, <<",">>) \o <<",">> \o DecStr(port % 256)
    \o <<",">> \o DecStr(port \div 256)

\* the text in the parentheses of the 227 reply
PasvText(port) ==
  Replace(host, Dot, <<",">>) \o <<",">> \o DecStr(port \div 256)
    \o <<",">> \o DecStr(port % 256)

\* Server::port_mode: the connection is made while the User guard is held
h_port_mode(t) ==
  /\ t \in Tasks
  /\ CASE task[t].pc = "port_mode" ->
            /\ ulock = 0
            /\ ulock' = t
            /\ task' = [task EXCEPT ![t] = Goto(t, "port_mode:connect")]
            /\ UNCHANGED <<user, sock, ctrl>>
       [] task[t].pc = "port_mode:connect" ->
            /\ ctrl' = ctrl
            /\ \E connected \in BOOLEAN :
                 IF connected
                 THEN /\ user' = [user EXCEPT !.session = NewSession(t, "Port")]
                      /\ sock' = Dropped @@ (t :> NewSock)
                      /\ ulock' = ulock
                      /\ task' = [task EXCEPT ![t] = Goto(t, "port_mode:say")]
                 ELSE /\ ulock' = 0
                      /\ task' = [task EXCEPT ![t] = Failed(t, "Connection refused")]
                      /\ UNCHANGED <<user, sock>>
       [] task[t].pc = "port_mode:say" ->
            /\ WriteCtl(t, <<Reply(t, 200, "PORT command successful.")>>,
                        Finished(t), TRUE)
            /\ UNCHANGED <<user, sock>>
       [] OTHER -> FALSE
  /\ UNCHANGED <<actor, client, inMap, clock, ctlOpen, lsn, fsys>>

\* Server::passive_mode: the listener is bound, the 227 reply is written and
\* the accept task is spawned; the User is not touched
h_passive_mode(t) ==
  /\ At(t, "passive_mode")
  /\ WriteCtl(t, <<ReplyArg(t, 227, "Entering Passive Mode", PasvText(PasvPort))>>,
              Finished(t), TRUE)
  /\ lsn' = IF ctlOpen THEN lsn @@ (t :> [st |-> "listening", port |-> PasvPort])
            ELSE lsn
  /\ UNCHANGED <<actor, client, inMap, user, clock, ctlOpen, sock, fsys>>

\* the task passive_mode spawns: once a peer has connected to the listener
\* it takes the User mutex and installs a session for the accepted socket
pasv_accept(k) ==
  /\ k \in DOMAIN lsn
  /\ lsn[k].st = "connected"
  /\ ulock = 0
  /\ user' = [user EXCEPT !.session = NewSession(k, "Passive")]
  /\ sock' = Dropped
  /\ lsn' = [lsn EXCEPT ![k].st = "done"]
  /\ UNCHANGED <<actor, client, inMap, ulock, clock, ctlOpen, ctrl, task, fsys>>

\* Server::abort.  The status is set before the session is looked for
h_abort(t) ==
  /\ t \in Tasks
  /\ CASE task[t].pc = "abort" ->
            /\ ulock = 0
            /\ ctrl' = ctrl
            /\ IF user.session.sid = 0
               THEN /\ user' = [user EXCEPT !.status = "Active"]
                    /\ ulock' = 0
                    /\ task' = [task EXCEPT ![t] = Failed(t, "No session found")]
               ELSE /\ user' = [user EXCEPT !.status = "Active",
                                            !.session.aborted = TRUE]
                    /\ ulock' = t
                    /\ task' = [task EXCEPT ![t] = Goto(t, "abort:say")]
       [] task[t].pc = "abort:say" ->
            /\ WriteCtl(t, <<Reply(t, 226, "ABOR command processed.")>>,
                        Finished(t), TRUE)
            /\ user' = user
       [] OTHER -> FALSE
  /\ UNCHANGED <<actor, client, inMap, clock, ctlOpen, sock, lsn, fsys>>

(***************************************************************************)
(* The data peer: the client's side of a data connection.                  *)
(***************************************************************************)
DataBytes == {8, 9}

\* the client connects to the port a 227 reply named
PeerConnect(k) ==
  /\ k \in DOMAIN lsn
  /\ lsn[k].st = "listening"
  /\ lsn' = [lsn EXCEPT ![k].st = "connected"]
  /\ sock' = sock @@ (k :> NewSock)
  /\ UNCHANGED <<actor, client, inMap, user, ulock, clock, ctlOpen, ctrl, task, fsys>>

PeerSend(s, b) ==
  /\ s \in DOMAIN sock
  /\ ~sock[s].closed
  /\ sock[s].peer = "open"
  /\ sock[s].sent < MaxData
  /\ sock' = [sock EXCEPT ![s].inq = Append(@, b), ![s].sent = @ + 1,
                          ![s].all = Append(@, b)]
  /\ UNCHANGED <<actor, client, inMap, user, ulock, clock, ctlOpen, ctrl, task, lsn, fsys>>

\* the peer closes its side: the server reads end of file after the data
PeerClose(s) ==
  /\ s \in DOMAIN sock
  /\ ~sock[s].closed
  /\ sock[s].peer = "open"
  /\ sock' = [sock EXCEPT ![s].peer = "eof"]
  /\ UNCHANGED <<actor, client, inMap, user, ulock, clock, ctlOpen, ctrl, task, lsn, fsys>>

\* the peer resets the connection
PeerReset(s) ==
  /\ s \in DOMAIN sock
  /\ ~sock[s].closed
  /\ sock[s].peer \in {"open", "eof"}
  /\ sock' = [sock EXCEPT ![s].peer = "reset", ![s].inq = <<>>]
  /\ UNCHANGED <<actor, client, inMap, user, ulock, clock, ctlOpen, ctrl, task, lsn, fsys>>

(***************************************************************************)
(* QUIT, which Server::handle awaits itself before it removes the User     *)
(* from the map and returns.                                               *)
(***************************************************************************)
h_quit(t) ==
  /\ t \in Tasks
  /\ CASE task[t].pc = "quit" ->
            /\ ulock = 0
            /\ ulock' = t
            /\ user' = [user EXCEPT !.session = NoSession]
            /\ sock' = Dropped
            /\ task' = [task EXCEPT ![t] = Goto(t, "quit:say")]
            /\ UNCHANGED <<actor, inMap, ctrl, ctlOpen>>
       [] task[t].pc = "quit:say" ->
            /\ clock = 0
            /\ ctrl' = IF ctlOpen THEN Append(ctrl, Reply(t, 221, "Goodbye.")) ELSE ctrl
            /\ ctlOpen' = FALSE
            /\ ulock' = 0
            /\ task' = [task EXCEPT ![t] = Finished(t)]
            /\ actor' = "done"
            /\ inMap' = FALSE
            /\ UNCHANGED <<user, sock>>
       [] OTHER -> FALSE
  /\ UNCHANGED <<client, clock, lsn, fsys>>

(***************************************************************************)
(* Transfers.                                                              *)
(***************************************************************************)
\* u64::MAX, which Server::append stores as the offset: the largest number
\* the checker's integers hold stands for it
U64MaxOffset == 2147483647

\* Uuid::new_v4().to_string(): a name no other command makes
UuidName(t) == <<"u">> \o DecStr(t)

FileLen(fs, loc) == IF IsFile(fs, loc) THEN Len(fs.files[loc]) ELSE 0

\* a file's bytes written whole at its start, wherever the file stands
WriteAtStart(bytes, pos, data) ==
  data \o SubSeq(bytes, Len(data) + 1, Len(bytes))

\* Write::write_all at the position pos of a file's bytes
WriteAt(bytes, pos, data) ==
  SubSeq(bytes, 1, pos) \o data \o SubSeq(bytes, pos + Len(data) + 1, Len(bytes))

OpenFile(loc, pos, wr) == [loc |-> loc, pos |-> pos, wr |-> wr, open |-> TRUE]

\* the end of retrieve and of store_file: the session is looked up again, its
\* socket is shut down, and the reply is chosen by the aborted flag
TransferEnd(t, abortedPc, completePc) ==
  /\ ulock = 0
  /\ ctrl' = ctrl
  /\ IF user.session.sid = 0
     THEN /\ task' = [task EXCEPT ![t] = Failed(t, "No session found")]
          /\ UNCHANGED <<user, ulock, sock>>
     ELSE \E ok \in ShutdownResults(user.session.sid) :
       IF ~ok
       THEN /\ task' = [task EXCEPT ![t] = Failed(t, "Transport endpoint is not connected")]
            /\ UNCHANGED <<user, ulock, sock>>
       ELSE /\ sock' = [sock EXCEPT ![user.session.sid].shut = TRUE]
            /\ ulock' = t
            /\ IF user.session.aborted
               THEN /\ user' = user
                    /\ task' = [task EXCEPT ![t] = [Goto(t, abortedPc) EXCEPT !.file = NoFile]]
               ELSE /\ user' = [user EXCEPT !.session.finished = TRUE]
                    /\ task' = [task EXCEPT ![t] = [Goto(t, completePc) EXCEPT !.file = NoFile]]

\* Server::retrieve.  A missing file is answered 550 and the function goes
\* on; no path is checked against the root
h_retrieve(t) ==
  /\ t \in Tasks
  /\ LET me == task[t]
         ses == user.session
         path == UserPath(me.cmd.arg) IN
     CASE me.pc = "retrieve" ->
            /\ ulock = 0
            /\ UNCHANGED <<ulock, ctrl, sock>>
            /\ IF ses.sid = 0
               THEN /\ task' = [task EXCEPT ![t] = Failed(t, "No session found")]
                    /\ user' = user
               ELSE /\ user' = [user EXCEPT !.session.file_name = me.cmd.arg]
                    /\ task' = [task EXCEPT ![t] =
                         [me EXCEPT !.path = path, !.off = ses.offset,
                                    !.pc = IF Exists(fsys, path) THEN "retrieve:150"
                                           ELSE "retrieve:nofile"]]
       [] me.pc = "retrieve:nofile" ->
            /\ WriteCtl(t, <<Reply(t, 550, "File not found.")>>,
                        Goto(t, "retrieve:150"), FALSE)
            /\ UNCHANGED <<user, sock>>
       [] me.pc = "retrieve:150" ->
            /\ LET f == Resolve(fsys, me.path) IN
               WriteCtl(t, <<ReplyArg(t, 150, "Opening BINARY mode data connection for",
                                      me.cmd.arg)>>,
                        IF ~f.ok THEN Failed(t, "No such file or directory")
                        ELSE IF me.off > 0 /\ me.off >= FileLen(fsys, f.loc)
                        THEN Goto(t, "retrieve:range")
                        ELSE [me EXCEPT !.pc = "retrieve:loop",
                                        !.file = OpenFile(f.loc, me.off, FALSE)],
                        FALSE)
            /\ UNCHANGED <<user, sock>>
       [] me.pc = "retrieve:range" ->
            /\ WriteCtl(t, <<Reply(t, 550, "Offset out of range.")>>, Finished(t), TRUE)
            /\ UNCHANGED <<user, sock>>
       [] me.pc = "retrieve:loop" ->
            /\ ulock = 0
            /\ UNCHANGED <<user, ulock, ctrl>>
            /\ LET bytes == IF IsFile(fsys, me.file.loc) THEN fsys.files[me.file.loc]
                            ELSE <<>>
                   data == SubSeq(bytes, me.file.pos + 1,
                                  Min(me.file.pos + BlockSize, Len(bytes))) IN
               IF ses.sid = 0
               THEN /\ task' = [task EXCEPT ![t] = Failed(t, "No session found")]
                    /\ sock' = sock
               ELSE IF ses.aborted
               THEN /\ task' = [task EXCEPT ![t] =
                                  [Goto(t, "retrieve:end") EXCEPT !.saw = TRUE]]
                    /\ sock' = sock
               ELSE IF IsDir(fsys, me.file.loc)
               THEN /\ task' = [task EXCEPT ![t] = Failed(t, "Is a directory")]
                    /\ sock' = sock
               ELSE IF data = <<>>
               THEN /\ task' = [task EXCEPT ![t] = Goto(t, "retrieve:end")]
                    /\ sock' = sock
               ELSE IF ~CanWrite(ses.sid)
               THEN /\ task' = [task EXCEPT ![t] = Failed(t, "Broken pipe")]
                    /\ sock' = sock
               ELSE /\ task' = [task EXCEPT ![t].file.pos = @ + Len(data)]
                    /\ sock' = [sock EXCEPT ![ses.sid].out = @ \o data]
       [] me.pc = "retrieve:end" ->
            TransferEnd(t, "retrieve:aborted", "retrieve:complete")
       [] me.pc = "retrieve:aborted" ->
            /\ WriteCtl(t, <<Reply(t, 226, "Connection closed; transfer aborted.")>>,
                        Finished(t), TRUE)
            /\ UNCHANGED <<user, sock>>
       [] me.pc = "retrieve:complete" ->
            /\ WriteCtl(t, <<Reply(t, 226, "Transfer complete.")>>, Finished(t), TRUE)
            /\ UNCHANGED <<user, sock>>
       [] OTHER -> FALSE
  /\ UNCHANGED <<actor, client, inMap, clock, ctlOpen, lsn, fsys>>

\* Server::append: the offset u64::MAX is left in the session, then store_file
h_append(t) ==
  /\ At(t, "append")
  /\ ulock = 0
  /\ IF user.session.sid = 0
     THEN /\ task' = [task EXCEPT ![t] = Failed(t, "No session found")]
          /\ user' = user
     ELSE /\ user' = [user EXCEPT !.session.file_name = task[t].cmd.arg,
                                  !.session.offset = U64MaxOffset]
          /\ task' = [task EXCEPT ![t] = Goto(t, "store_file")]
  /\ UNCHANGED <<actor, client, inMap, ulock, clock, ctlOpen, ctrl, sock, lsn, fsys>>

\* FtpHelper::store_file, which STOR, STOU and APPE run.  The target is
\* compared with the root as it is spelled; an existing file is answered 550
\* after the 150 reply and is then opened for reading only
h_store_file(t) ==
  /\ t \in Tasks
  /\ LET me == task[t]
         ses == user.session
         file_name == IF me.cmd.verb = "STOU" THEN UuidName(t) ELSE me.cmd.arg
         target == Resolve(fsys, me.path)
         made == NewLoc(fsys, me.path) IN
     CASE me.pc = "store_file" ->
            /\ ulock = 0
            /\ UNCHANGED <<ulock, ctrl, sock, fsys>>
            /\ IF ses.sid = 0
               THEN /\ task' = [task EXCEPT ![t] = Failed(t, "No session found")]
                    /\ user' = user
               ELSE /\ user' = [user EXCEPT !.session.file_name = file_name]
                    /\ task' = [task EXCEPT ![t] =
                         [me EXCEPT !.path = UserPath(file_name), !.off = ses.offset,
                                    !.pc = IF StartsWith(UserPath(file_name), root)
                                           THEN "store_file:150" ELSE "store_file:deny"]]
       [] me.pc = "store_file:deny" ->
            /\ WriteCtl(t, <<Reply(t, 550, "Permission denied.")>>, Finished(t), TRUE)
            /\ UNCHANGED <<user, sock, fsys>>
       [] me.pc = "store_file:150" ->
            /\ WriteCtl(t, <<ReplyArg(t, 150, "Opening BINARY mode data connection for",
                                      file_name)>>,
                        IF target.ok /\ IsDir(fsys, target.loc)
                        THEN Goto(t, "store_file:isdir")
                        ELSE IF target.ok /\ me.off = 0
                        THEN Goto(t, "store_file:exists")
                        ELSE IF target.ok
                        THEN [me EXCEPT !.pc = "store_file:loop",
                                !.file = OpenFile(target.loc,
                                                  Min(me.off, FileLen(fsys, target.loc)),
                                                  FALSE)]
                        ELSE IF made.ok
                        THEN [me EXCEPT !.pc = "store_file:loop",
                                        !.file = OpenFile(made.loc, 0, TRUE)]
                        ELSE Failed(t, "No such file or directory"),
                        FALSE)
            /\ fsys' = IF ctlOpen /\ clock = 0 /\ ~target.ok /\ made.ok
                       THEN [fsys EXCEPT !.files = @ @@ (made.loc :> <<>>)]
                       ELSE fsys
            /\ UNCHANGED <<user, sock>>
       [] me.pc = "store_file:isdir" ->
            /\ WriteCtl(t, <<Reply(t, 550, "Permission denied, the path is a directory.")>>,
                        Finished(t), TRUE)
            /\ UNCHANGED <<user, sock, fsys>>
       [] me.pc = "store_file:exists" ->
            /\ WriteCtl(t, <<Reply(t, 550, "Permission denied, the file exists.")>>,
                        IF target.ok
                        THEN [me EXCEPT !.pc = "store_file:loop",
                                        !.file = OpenFile(target.loc, 0, FALSE)]
                        ELSE Failed(t, "No such file or directory"),
                        FALSE)
            /\ UNCHANGED <<user, sock, fsys>>
       [] me.pc = "store_file:loop" ->
            /\ ulock = 0
            /\ UNCHANGED <<user, ctrl, sock, fsys>>
            /\ IF ses.sid = 0
               THEN /\ task' = [task EXCEPT ![t] = Failed(t, "No session found")]
                    /\ ulock' = 0
               ELSE IF ses.aborted
               THEN /\ task' = [task EXCEPT ![t] =
                                  [Goto(t, "store_file:end") EXCEPT !.saw = TRUE]]
                    /\ ulock' = 0
               ELSE /\ task' = [task EXCEPT ![t] = Goto(t, "store_file:read")]
                    /\ ulock' = t
       [] me.pc = "store_file:read" ->
            \* data_stream.read(&mut buf).await, with the User guard held
            /\ sock[ses.sid].inq # <<>> \/ sock[ses.sid].peer # "open"
            /\ ulock' = 0
            /\ UNCHANGED <<user, ctrl>>
            /\ LET n == Min(Len(sock[ses.sid].inq), BlockSize)
                   data == SubSeq(sock[ses.sid].inq, 1, n) IN
               IF sock[ses.sid].peer = "reset"
               THEN /\ task' = [task EXCEPT ![t] = Failed(t, "Connection reset by peer")]
                    /\ UNCHANGED <<sock, fsys>>
               ELSE IF n = 0
               THEN /\ task' = [task EXCEPT ![t] = Goto(t, "store_file:end")]
                    /\ UNCHANGED <<sock, fsys>>
               ELSE /\ sock' = [sock EXCEPT ![ses.sid].inq =
                                  SubSeq(@, n + 1, Len(@))]
                    /\ IF me.file.wr /\ IsFile(fsys, me.file.loc)
                       THEN /\ fsys' = [fsys EXCEPT !.files[me.file.loc] =
                                          WriteAt(@, me.file.pos, data)]
                            /\ task' = [task EXCEPT ![t] =
                                 [me EXCEPT !.pc = "store_file:loop",
                                            !.file.pos = @ + n]]
                       ELSE /\ fsys' = fsys
                            /\ task' = [task EXCEPT ![t] = Failed(t, "Bad file descriptor")]
       [] me.pc = "store_file:end" ->
            /\ TransferEnd(t, "store_file:aborted", "store_file:complete")
            /\ fsys' = fsys
       [] me.pc = "store_file:aborted" ->
            /\ WriteCtl(t, <<Reply(t, 226, "Connection closed; transfer aborted.")>>,
                        Finished(t), TRUE)
            /\ UNCHANGED <<user, sock, fsys>>
       [] me.pc = "store_file:complete" ->
            /\ WriteCtl(t, <<Reply(t, 226, "Transfer complete.")>>, Finished(t), TRUE)
            /\ UNCHANGED <<user, sock, fsys>>
       [] OTHER -> FALSE
  /\ UNCHANGED <<actor, client, inMap, clock, ctlOpen, lsn>>

\* the entries under a location
Children(fs, loc) ==
  {c \in fs.dirs \cup DOMAIN fs.files : c # <<>> /\ Front(c) = loc}

\* file_path_to_list_item: the name, and unless name_only the type and size
ListItem(fs, loc, name_only) ==
  IF name_only THEN [name |-> Last(loc), dir |-> FALSE, size |-> 0]
  ELSE [name |-> Last(loc), dir |-> IsDir(fs, loc), size |-> FileLen(fs, loc)]

\* get_list_lines: the lines of a directory's entries, or the line of a file
get_list_lines(fs, loc, name_only) ==
  IF IsDir(fs, loc) THEN {ListItem(fs, c, name_only) : c \in Children(fs, loc)}
  ELSE {ListItem(fs, loc, name_only)}

\* FtpHelper::list_files, which LIST and NLST run: the control writer's mutex
\* is taken first and held to the end, then the User mutex
h_list_files(t) ==
  /\ t \in Tasks
  /\ LET me == task[t]
         ses == user.session
         path == IF me.cmd.some THEN UserPath(me.cmd.arg) ELSE PathJoin(root, user.pwd)
         found == Resolve(fsys, path)
         say(code, text) == IF ctlOpen THEN Append(ctrl, Reply(t, code, text)) ELSE ctrl
         ended == IF ctlOpen THEN Finished(t) ELSE Failed(t, "Broken pipe") IN
     CASE me.pc = "list_files" ->
            /\ clock = 0
            /\ clock' = t
            /\ task' = [task EXCEPT ![t] = Goto(t, "list_files:user")]
            /\ UNCHANGED <<user, ctrl, sock>>
       [] me.pc = "list_files:user" ->
            /\ ulock = 0
            /\ clock' = 0
            /\ IF ~found.ok
               THEN /\ ctrl' = say(550, "No such file or directory.")
                    /\ task' = [task EXCEPT ![t] = ended]
                    /\ UNCHANGED <<user, sock>>
               ELSE IF ~StartsWith(LocStr(found.loc), root)
               THEN /\ ctrl' = say(550, "Permission denied.")
                    /\ task' = [task EXCEPT ![t] = ended]
                    /\ UNCHANGED <<user, sock>>
               ELSE IF ses.sid = 0
               THEN /\ task' = [task EXCEPT ![t] = Failed(t, "No session found")]
                    /\ UNCHANGED <<user, ctrl, sock>>
               ELSE IF ~ctlOpen
               THEN /\ task' = [task EXCEPT ![t] = Failed(t, "Broken pipe")]
                    /\ UNCHANGED <<user, ctrl, sock>>
               ELSE IF ~CanWrite(ses.sid)
               THEN /\ ctrl' = Append(ctrl,
                          Reply(t, 150, "Opening ASCII mode data connection for file list"))
                    /\ task' = [task EXCEPT ![t] = Failed(t, "Broken pipe")]
                    /\ UNCHANGED <<user, sock>>
               ELSE /\ ctrl' = ctrl \o
                          <<Reply(t, 150, "Opening ASCII mode data connection for file list"),
                            Reply(t, 226, "Transfer complete.")>>
                    /\ sock' = [sock EXCEPT
                          ![ses.sid].listing =
                             get_list_lines(fsys, found.loc, me.cmd.verb = "NLST"),
                          ![ses.sid].shut = TRUE]
                    /\ user' = [user EXCEPT !.session.finished = TRUE]
                    /\ task' = [task EXCEPT ![t] = Finished(t)]
       [] OTHER -> FALSE
  /\ UNCHANGED <<actor, client, inMap, ulock, ctlOpen, lsn, fsys>>

(***************************************************************************)
(* DELE, MKD and RMD.                                                      *)
(***************************************************************************)
Without(f, x) == [y \in DOMAIN f \ {x} |-> f[y]]

\* Server::delete: the path is compared with the root as it is spelled
h_delete(t) ==
  /\ t \in Tasks
  /\ LET me == task[t]
         path == UserPath(me.cmd.arg)
         found == Resolve(fsys, path) IN
     CASE me.pc = "delete" ->
            /\ ulock = 0
            /\ ulock' = t
            /\ ctrl' = ctrl
            /\ IF ~found.ok
               THEN /\ task' = [task EXCEPT ![t] = Goto(t, "delete:none")]
                    /\ fsys' = fsys
               ELSE IF ~StartsWith(path, root)
               THEN /\ task' = [task EXCEPT ![t] = Goto(t, "delete:deny")]
                    /\ fsys' = fsys
               ELSE IF IsFile(fsys, found.loc)
               THEN /\ task' = [task EXCEPT ![t] = Goto(t, "delete:ok")]
                    /\ fsys' = [fsys EXCEPT !.files = Without(@, found.loc)]
               ELSE /\ task' = [task EXCEPT ![t] = Goto(t, "delete:failed")]
                    /\ fsys' = fsys
       [] me.pc = "delete:none" ->
            /\ WriteCtl(t, <<Reply(t, 553, "Not found.")>>, Finished(t), TRUE)
            /\ fsys' = fsys
       [] me.pc = "delete:deny" ->
            /\ WriteCtl(t, <<Reply(t, 550, "Permission denied.")>>, Finished(t), TRUE)
            /\ fsys' = fsys
       [] me.pc = "delete:ok" ->
            /\ WriteCtl(t, <<Reply(t, 250, "Requested file action okay, completed.")>>,
                        Finished(t), TRUE)
            /\ fsys' = fsys
       [] me.pc = "delete:failed" ->
            /\ WriteCtl(t, <<Reply(t, 550, "Failed to remove file.")>>, Finished(t), TRUE)
            /\ fsys' = fsys
       [] OTHER -> FALSE
  /\ UNCHANGED <<actor, client, inMap, user, clock, ctlOpen, sock, lsn>>

\* Server::make_dir: the path is not checked at all
h_make_dir(t) ==
  /\ t \in Tasks
  /\ LET me == task[t]
         path == UserPath(me.cmd.arg)
         made == NewLoc(fsys, path) IN
     CASE me.pc = "make_dir" ->
            /\ ulock = 0
            /\ ulock' = t
            /\ ctrl' = ctrl
            /\ IF ~Exists(fsys, path) /\ made.ok
               THEN /\ task' = [task EXCEPT ![t] = Goto(t, "make_dir:ok")]
                    /\ fsys' = [fsys EXCEPT !.dirs = @ \cup {made.loc}]
               ELSE /\ task' = [task EXCEPT ![t] = Goto(t, "make_dir:err")]
                    /\ fsys' = fsys
       [] me.pc = "make_dir:ok" ->
            /\ WriteCtl(t, <<Reply(t, 257, "Directory created.")>>, Finished(t), TRUE)
            /\ fsys' = fsys
       [] me.pc = "make_dir:err" ->
            /\ WriteCtl(t, <<Reply(t, 550, "Permission denied.")>>, Finished(t), TRUE)
            /\ fsys' = fsys
       [] OTHER -> FALSE
  /\ UNCHANGED <<actor, client, inMap, user, clock, ctlOpen, sock, lsn>>

\* fs::remove_dir succeeds on an empty directory other than "/"
CanRemoveDir(fs, loc) == IsDir(fs, loc) /\ loc # <<>> /\ Children(fs, loc) = {}

\* Server::remove_dir: a directory outside the root is answered 550, and
\* the function goes on to remove it
h_remove_dir(t) ==
  /\ t \in Tasks
  /\ LET me == task[t]
         found == Resolve(fsys, UserPath(me.cmd.arg))
         removal(loc) ==
           /\ task' = [task EXCEPT ![t] =
                 [Goto(t, IF CanRemoveDir(fsys, loc) THEN "remove_dir:ok"
                          ELSE "remove_dir:failed") EXCEPT !.path = <<>>]]
           /\ fsys' = IF CanRemoveDir(fsys, loc)
                      THEN [fsys EXCEPT !.dirs = @ \ {loc}] ELSE fsys IN
     CASE me.pc = "remove_dir" ->
            /\ ulock = 0
            /\ ulock' = t
            /\ ctrl' = ctrl
            /\ IF ~found.ok
               THEN /\ task' = [task EXCEPT ![t] = Goto(t, "remove_dir:patherr")]
                    /\ fsys' = fsys
               ELSE IF ~StartsWith(LocStr(found.loc), root)
               THEN /\ task' = [task EXCEPT ![t] =
                          [Goto(t, "remove_dir:deny") EXCEPT !.path = LocStr(found.loc)]]
                    /\ fsys' = fsys
               ELSE removal(found.loc)
       [] me.pc = "remove_dir:deny" ->
            /\ clock = 0
            /\ IF ctlOpen
               THEN /\ ctrl' = Append(ctrl, Reply(t, 550, "Permission denied."))
                    /\ removal(Resolve(fsys, me.path).loc)
                    /\ ulock' = ulock
               ELSE /\ ctrl' = ctrl
                    /\ task' = [task EXCEPT ![t] = Failed(t, "Broken pipe")]
                    /\ ulock' = 0
                    /\ fsys' = fsys
       [] me.pc = "remove_dir:ok" ->
            /\ WriteCtl(t, <<Reply(t, 200, "Remove completed.")>>, Finished(t), TRUE)
            /\ fsys' = fsys
       [] me.pc = "remove_dir:failed" ->
            /\ WriteCtl(t, <<Reply(t, 550, "Failed to remove directory.")>>,
                        Finished(t), TRUE)
            /\ fsys' = fsys
       [] me.pc = "remove_dir:patherr" ->
            /\ WriteCtl(t, <<Reply(t, 550, "Path error.")>>, Finished(t), TRUE)
            /\ fsys' = fsys
       [] OTHER -> FALSE
  /\ UNCHANGED <<actor, client, inMap, user, clock, ctlOpen, sock, lsn>>

(***************************************************************************)
(* The specifications.  Each one lets the client send the lines of one     *)
(* group of commands and runs the handlers of these commands.              *)
(***************************************************************************)
\* logging in and walking the directories
CtlLines ==
  {lnUser, lnPass, lnNoop, lnPwd, lnSyst, lnCwdD, lnCwdUp, lnCwdUpUp, lnCwdNone,
   lnCwdSlash, lnCwdAbsE, lnCdup, lnQuit}

NextCtl ==
  \/ \E line \in CtlLines : handle(line)
  \/ \E t \in Tasks : dispatch_error(t)
  \/ \E t \in Tasks : h_user(t)
  \/ \E t \in Tasks : h_pass(t)
  \/ \E t \in Tasks : h_noop(t)
  \/ \E t \in Tasks : h_system_info(t)
  \/ \E t \in Tasks : h_pwd(t)
  \/ \E t \in Tasks : h_cwd(t)
  \/ \E t \in Tasks : h_cd_up(t)
  \/ \E t \in Tasks : h_quit(t)

SpecCtl == Init /\ [][NextCtl]_vars

\* the data connections and the transfers to the client
RetrLines ==
  {lnPort, lnPasv, lnRetrF, lnRetrOut, lnList, lnAbor, lnNoop, lnQuit}

NextRetr ==
  \/ \E line \in RetrLines : handle(line)
  \/ \E t \in Tasks : dispatch_error(t)
  \/ \E t \in Tasks : h_noop(t)
  \/ \E t \in Tasks : h_port_mode(t)
  \/ \E t \in Tasks : h_passive_mode(t)
  \/ \E k \in DOMAIN lsn : pasv_accept(k)
  \/ \E t \in Tasks : h_retrieve(t)
  \/ \E t \in Tasks : h_list_files(t)
  \/ \E t \in Tasks : h_abort(t)
  \/ \E t \in Tasks : h_quit(t)
  \/ \E k \in DOMAIN lsn : PeerConnect(k)
  \/ \E s \in DOMAIN sock : PeerClose(s)
  \/ \E s \in DOMAIN sock : PeerReset(s)

SpecRetr == Init /\ [][NextRetr]_vars

\* the transfers from the client
StorLines == {lnPort, lnStorG, lnStorF, lnStorOut, lnAbor, lnQuit}

NextStor ==
  \/ \E line \in StorLines : handle(line)
  \/ \E t \in Tasks : dispatch_error(t)
  \/ \E t \in Tasks : h_port_mode(t)
  \/ \E t \in Tasks : h_store_file(t)
  \/ \E t \in Tasks : h_abort(t)
  \/ \E t \in Tasks : h_quit(t)
  \/ \E s \in DOMAIN sock, b \in DataBytes : PeerSend(s, b)
  \/ \E s \in DOMAIN sock : PeerClose(s)
  \/ \E s \in DOMAIN sock : PeerReset(s)

SpecStor == Init /\ [][NextStor]_vars

\* the files and directories
FsLines ==
  {lnDeleF, lnDeleOut, lnMkdG, lnMkdOut, lnRmdD, lnRmdOut, lnCwdD, lnQuit}

NextFs ==
  \/ \E line \in FsLines : handle(line)
  \/ \E t \in Tasks : dispatch_error(t)
  \/ \E t \in Tasks : h_cwd(t)
  \/ \E t \in Tasks : h_delete(t)
  \/ \E t \in Tasks : h_make_dir(t)
  \/ \E t \in Tasks : h_remove_dir(t)
  \/ \E t \in Tasks : h_quit(t)

SpecFs == Init /\ [][NextFs]_vars

(***************************************************************************)
(* The properties.                                                         *)
(***************************************************************************)
\* those that are not the preliminary 150 line
TerminalRepliesTo(t) == {i \in RepliesTo(t) : ctrl[i].code # 150}

\* C1: every reply starts with a code in [100, 600) and ends with CRLF, no
\* command has more than one reply other than the 150 line, and a command
\* whose handling is over has exactly one
C1_OneTerminalReply ==
  /\ \A i \in DOMAIN ctrl : ctrl[i].code \in 100..599 /\ ctrl[i].crlf
  /\ \A t \in Tasks :
       /\ Cardinality(TerminalRepliesTo(t)) <= 1
       /\ task[t].pc = "done" => Cardinality(TerminalRepliesTo(t)) = 1

\* C2: a command outside USER, PASS, QUIT, NOOP, FEAT and SYST that was
\* received while the status was not Active has no reply but 530, and its
\* handler is not run: the task never stands inside the handler
C2_NotLoggedIn ==
  \A t \in Tasks :
    (task[t].st0 # "Active" /\ task[t].cmd.verb \notin AuthFree) =>
      /\ \A i \in RepliesTo(t) : ctrl[i].code = 530
      /\ task[t].pc \in {Entry(task[t].cmd.verb), "done"}

\* C3: a command b that is not ABOR has no reply in the control stream
\* before the terminal reply of every command a received before it
C3_RepliesInOrder ==
  \A a \in Tasks, b \in Tasks :
    (a < b /\ task[b].cmd.verb # "ABOR") =>
      \A j \in RepliesTo(b) : \E i \in TerminalRepliesTo(a) : i < j

\* the directories and files outside the root
Outside(fs) ==
  [dirs |-> {d \in fs.dirs : ~InsideRoot(d)},
   files |-> [f \in {g \in DOMAIN fs.files : ~InsideRoot(g)} |-> fs.files[f]]]

\* C4: nothing outside the root is created, written or deleted, and no
\* handler holds an open file that lies outside the root
C4_NothingOutsideRoot ==
  /\ Outside(fsys) = Outside(InitFs)
  /\ \A t \in Tasks : task[t].file.open => InsideRoot(task[t].file.loc)

\* C5: the working directory denotes a directory inside the root, and a CWD
\* that was answered 550 has no other reply
C5_CwdInsideRoot ==
  /\ LET wd == Resolve(fsys, PathJoin(root, user.pwd)) IN
       wd.ok /\ IsDir(fsys, wd.loc) /\ InsideRoot(wd.loc)
  /\ \A t \in Tasks :
       (task[t].cmd.verb = "CWD" /\ \E i \in RepliesTo(t) : ctrl[i].code = 550) =>
         Cardinality(RepliesTo(t)) = 1

\* the PORT and PASV commands whose reply 200 or 227 was written
Prepared ==
  {k \in Tasks : /\ task[k].cmd.verb \in {"PORT", "PASV"}
                 /\ \E i \in RepliesTo(k) : ctrl[i].code \in {200, 227}}

\* C6: once the reply to a PORT or PASV is written, the session of no
\* earlier PORT or PASV is the User's session
C6_EarlierSessionGone ==
  \A k \in Prepared : user.session.sid = 0 \/ user.session.sid >= k

\* C7: no block is read from the data socket while the session is aborted,
\* and the last reply to a transfer that saw aborted = true is 226 or 426
C7_AbortedEndsWith226 ==
  /\ \A t \in Tasks :
       task[t].pc = "store_file:read" => ~user.session.aborted
  /\ \A t \in Tasks :
       (task[t].saw /\ task[t].pc = "done") =>
         \A i \in RepliesTo(t) :
           (\A j \in RepliesTo(t) : j <= i) => ctrl[i].code \in {226, 426}

\* C8: while a transfer is between its 150 reply and its terminal reply the
\* only command taken in is ABOR, and no two transfers are in that stretch
\* at the same time
C8_TransferExcludesCommands ==
  [][/\ ((\E t \in Tasks : InTransfer(t)) /\ Len(task') > Len(task)) =>
          task'[Len(task')].cmd.verb = "ABOR"
     /\ Cardinality({t \in DOMAIN task' : InTransfer(t)'}) <= 1]_vars

\* C10: a data command received while an answered PASV still waited for its
\* data connection has no reply other than 425 before the session of a PASV
\* is installed
C10_WaitsForPassive ==
  \A t \in Tasks :
    (task[t].pend0 /\ task[t].cmd.verb \in DataVerbs) =>
      \A i \in RepliesTo(t) :
        \/ ctrl[i].code = 425
        \/ \E k \in DOMAIN lsn : k < t /\ lsn[k].st = "done"

(***************************************************************************)
(* A transfer from the client whose data peer stays connected: the peer    *)
(* sends what it sends and then does nothing.  Every task of the runtime   *)
(* that can take a step eventually takes one.                              *)
(***************************************************************************)
IdleLines == {lnPort, lnStorG, lnAbor}

NextIdle ==
  \/ \E line \in IdleLines : handle(line)
  \/ \E t \in Tasks : dispatch_error(t)
  \/ \E t \in Tasks : h_port_mode(t)
  \/ \E t \in Tasks : h_store_file(t)
  \/ \E t \in Tasks : h_abort(t)
  \/ \E s \in DOMAIN sock : PeerSend(s, 8)

SpecIdle ==
  /\ Init
  /\ [][NextIdle]_vars
  /\ \A t \in 1..MaxCmds :
       /\ WF_vars(dispatch_error(t))
       /\ WF_vars(h_port_mode(t))
       /\ WF_vars(h_store_file(t))
       /\ WF_vars(h_abort(t))

\* the transfers STOR and RETR that were between their 150 reply and
\* their end when the command a, an ABOR, was received
AbortedBy(a) ==
  IF a \in Tasks /\ task[a].cmd.verb = "ABOR"
  THEN {t \in task[a].xfer0 : task[t].cmd.verb \in {"STOR", "RETR"}}
  ELSE {}

HasReply(t, text) == \E i \in RepliesTo(t) : ctrl[i].code = 226 /\ ctrl[i].text = text

\* C9: once an ABOR was received during a STOR or RETR, eventually every such
\* ABOR is answered "226 ABOR command processed." and each of the transfers
\* has ended with "226 Connection closed; transfer aborted.", each reply
\* written once, though the data peer stays connected and idle
C9_AborEventuallyAnswered ==
  (\E a \in Tasks : AbortedBy(a) # {}) ~>
    (\A a \in Tasks : \A t \in AbortedBy(a) :
       /\ HasReply(a, "ABOR command processed.")
       /\ HasReply(t, "Connection closed; transfer aborted.")
       /\ Cardinality(TerminalRepliesTo(a)) = 1
       /\ Cardinality(TerminalRepliesTo(t)) = 1)

\* the commands that prepare a data connection
Preparing == {k \in Tasks : task[k].cmd.verb \in {"PORT", "PASV"}}

\* C11: a transfer command on a connection that never had a PORT or PASV,
\* so that its User has no TransferSession, is answered with
\* "425 Can't open data connection." and with nothing else: no 150 is
\* written, the handler ends with that one reply, and no file changes.
C11_NoSessionIs425 ==
  Preparing = {} =>
    /\ fsys = InitFs
    /\ \A t \in Tasks : task[t].cmd.verb \in DataVerbs =>
         /\ task[t].pc = "done" => RepliesTo(t) # {}
         /\ \A i \in RepliesTo(t) :
              /\ ctrl[i].code = 425
              /\ ctrl[i].text = "Can't open data connection."

(***************************************************************************)
(* The client's end of the control connection, and the turn of the loop    *)
(* of Server::handle that finds it gone.                                   *)
(***************************************************************************)
\* the client closes the connection: the server's reads return 0 bytes
ClientClose ==
  /\ client = "open"
  /\ client' = "closed"
  /\ UNCHANGED <<actor, inMap, user, ulock, clock, ctlOpen, ctrl, task, sock, lsn, fsys>>

\* the client resets the connection: the server's reads fail
ClientReset ==
  /\ client \in {"open", "closed"}
  /\ client' = "reset"
  /\ UNCHANGED <<actor, inMap, user, ulock, clock, ctlOpen, ctrl, task, sock, lsn, fsys>>

\* Server::handle: a read that fails removes the User from the map and
\* returns; a read of 0 bytes gives an empty request, which `continue`
\* answers by reading again
handle_closed ==
  /\ actor = "read"
  /\ client # "open"
  /\ IF client = "reset"
     THEN actor' = "done" /\ inMap' = FALSE
     ELSE UNCHANGED <<actor, inMap>>
  /\ UNCHANGED <<client, user, ulock, clock, ctlOpen, ctrl, task, sock, lsn, fsys>>

(***************************************************************************)
(* The end of a connection while a transfer from the client is under way.  *)
(* Every task of the runtime that can take a step eventually takes one,    *)
(* the loop of Server::handle included.                                    *)
(***************************************************************************)
EndLines == {lnPort, lnStorG, lnQuit}

NextEnd ==
  \/ \E line \in EndLines : handle(line)
  \/ handle_closed
  \/ \E t \in Tasks : dispatch_error(t)
  \/ \E t \in Tasks : h_port_mode(t)
  \/ \E t \in Tasks : h_store_file(t)
  \/ \E t \in Tasks : h_quit(t)
  \/ \E s \in DOMAIN sock : PeerSend(s, 8)
  \/ ClientClose
  \/ ClientReset

SpecEnd ==
  /\ Init
  /\ [][NextEnd]_vars
  /\ WF_vars(handle_closed)
  /\ \A t \in 1..MaxCmds :
       /\ WF_vars(dispatch_error(t))
       /\ WF_vars(h_port_mode(t))
       /\ WF_vars(h_store_file(t))
       /\ WF_vars(h_quit(t))

\* C12: a QUIT that was read ends the connection: the 221 line is the last
\* thing written to the control channel and the write side is closed after
\* it, and the actor that read the QUIT eventually returns with the User
\* removed from the map, whatever the other handlers of the connection are
\* doing and whoever holds the User lock.
C12_QuitTerminates ==
  /\ [](\A i \in DOMAIN ctrl : ctrl[i].code = 221 => i = Len(ctrl) /\ ~ctlOpen)
  /\ (actor = "quit") ~> (actor = "done" /\ ~inMap)

\* C13: once the client has closed or reset the control connection and the
\* actor is at its read, the actor eventually returns and the User is no
\* longer in the server's map.
C13_ClosedConnectionEnds ==
  (client # "open" /\ actor = "read") ~> (actor = "done" /\ ~inMap)

\* C14: once QUIT has ended the connection (its 221 line is written), the
\* User has no TransferSession and gets none: no accept task of a PASV and
\* no handler still running installs one afterwards.
C14_SessionStaysDestroyed ==
  (\E i \in DOMAIN ctrl : ctrl[i].code = 221) => user.session.sid = 0

(***************************************************************************)
(* FEAT and STAT, whose replies are several lines, one write_all each,     *)
(* written while one guard of the control writer's mutex is held.          *)
(***************************************************************************)
\* a writer whose guard is taken for each line and given up after it
WriterPerLine(t, last) == 0

\* the owner of the writer's mutex after a handler that holds its guard to
\* the end of the function has written a line (last: the handler returns)
WriterAfter(t, last) == IF last THEN 0 ELSE t

\* the next write_all of a handler that holds the writer's guard: task[t].off
\* counts the lines written so far.  A failed write returns by `?`, which
\* drops the guards
WriteHeld(t, lines) ==
  LET n == task[t].off + 1
      last == n = Len(lines) IN
  /\ clock \in {0, t}
  /\ IF ctlOpen
     THEN /\ ctrl' = Append(ctrl, lines[n])
          /\ task' = [task EXCEPT ![t] =
                        IF last THEN Finished(t) ELSE [task[t] EXCEPT !.off = n]]
          /\ clock' = WriterAfter(t, last)
          /\ ulock' = IF last THEN Unlocked(t) ELSE ulock
     ELSE /\ ctrl' = ctrl
          /\ task' = [task EXCEPT ![t] = Failed(t, "Broken pipe")]
          /\ clock' = 0
          /\ ulock' = Unlocked(t)

\* a line that begins with no reply code
Line(t, text) == Reply(t, 0, text)

FeatLines(t) ==
  <<Reply(t, 211, "-Features:"), Line(t, " REST STREAM"), Line(t, " MDTM"),
    Reply(t, 211, "End.")>>

\* Server::feat
h_feat(t) ==
  /\ t \in Tasks
  /\ CASE task[t].pc = "feat" ->
            /\ clock = 0
            /\ clock' = t
            /\ task' = [task EXCEPT ![t] = Goto(t, "feat:write")]
            /\ UNCHANGED <<ctrl, ulock>>
       [] task[t].pc = "feat:write" -> WriteHeld(t, FeatLines(t))
       [] OTHER -> FALSE
  /\ UNCHANGED <<actor, client, inMap, user, ctlOpen, sock, lsn, fsys>>

\* the writes of Server::status: without a path the two lines of the server's
\* status; with one, 553 if nothing is there, else the listing between its
\* two 213 lines, after a 550 if the path leaves the root
StatusLines(t) ==
  LET path == UserPath(task[t].cmd.arg)
      found == Resolve(fsys, path) IN
  IF ~task[t].cmd.some
  THEN <<Reply(t, 211, "-Status of the server:"), Reply(t, 211, "End of status.")>>
  ELSE IF ~found.ok
  THEN <<Reply(t, 553, "Not found.")>>
  ELSE (IF StartsWith(LocStr(found.loc), root) THEN <<>>
        ELSE <<Reply(t, 550, "Permission denied.")>>)
       \o <<ReplyArg(t, 213, "-Status of", task[t].cmd.arg),
            Line(t, IF get_list_lines(fsys, found.loc, FALSE) = {}
                    THEN "" ELSE "the lines of the list"),
            Reply(t, 213, "End of status.")>>

\* Server::status: the User mutex is taken, then the writer's
h_status(t) ==
  /\ t \in Tasks
  /\ CASE task[t].pc = "status" ->
            /\ ulock = 0
            /\ ulock' = t
            /\ task' = [task EXCEPT ![t] = Goto(t, "status:control")]
            /\ UNCHANGED <<ctrl, clock>>
       [] task[t].pc = "status:control" ->
            /\ clock = 0
            /\ clock' = t
            /\ task' = [task EXCEPT ![t] = Goto(t, "status:write")]
            /\ UNCHANGED <<ctrl, ulock>>
       [] task[t].pc = "status:write" -> WriteHeld(t, StatusLines(t))
       [] OTHER -> FALSE
  /\ UNCHANGED <<actor, client, inMap, user, ctlOpen, sock, lsn, fsys>>

\* commands with replies of several lines, among commands with one line and
\* a command whose handler fails
ReplyLines == {lnFeat, lnStat, lnStatD, lnStatOut, lnNoop, lnRetrF, lnQuit}

NextReply ==
  \/ \E line \in ReplyLines : handle(line)
  \/ \E t \in Tasks : dispatch_error(t)
  \/ \E t \in Tasks : h_noop(t)
  \/ \E t \in Tasks : h_feat(t)
  \/ \E t \in Tasks : h_status(t)
  \/ \E t \in Tasks : h_retrieve(t)
  \/ \E t \in Tasks : h_quit(t)

SpecReply == Init /\ [][NextReply]_vars

\* C15: the writes of one reply are contiguous on the control channel: between
\* two lines that one handler wrote under one guard of the writer (the lines
\* of a FEAT or a STAT reply) there is no line of another handler or of the
\* dispatcher's error branch, and nobody writes while another task holds
\* the writer.
C15_RepliesContiguous ==
  \A i \in DOMAIN ctrl, j \in DOMAIN ctrl :
    (i < j /\ ctrl[i].id = ctrl[j].id /\ ctrl[i].id \in Tasks
       /\ task[ctrl[i].id].cmd.verb \in {"FEAT", "STAT"}) =>
      \A k \in i..j : ctrl[k].id = ctrl[i].id

\* a FEAT or STAT reply is half written while another handler has its reply
\* ready to write
C15_Contended ==
  \E t \in Tasks, u \in Tasks :
    /\ clock = t
    /\ task[t].pc \in {"feat:write", "status:write"}
    /\ task[t].off >= 1
    /\ task[u].pc \in {"noop", "fail", "feat", "status:control"}

\* a handler at a wait that may never end: the outgoing connect of PORT, or
\* a read of a data socket whose peer is connected and has sent nothing
WaitsOnData(t) ==
  \/ task[t].pc = "port_mode:connect"
  \/ /\ task[t].pc = "store_file:read"
     /\ user.session.sid \in DOMAIN sock
     /\ sock[user.session.sid].inq = <<>>
     /\ sock[user.session.sid].peer = "open"

\* C16: no handler holds the User lock while it waits on I/O that may block
\* for ever: at the connect of PORT and at a data-socket read with nothing to
\* read, the User mutex is not owned by the waiting handler.
C16_NoLockAcrossBlockingIO ==
  \A t \in Tasks : WaitsOnData(t) => ulock # t

(***************************************************************************)
(* Lines whose verb is no command, among them the line with no verb.       *)
(***************************************************************************)
lnXyzzy == <<"X", "Y", "Z", "Z", "Y", " ", "1", "\r", "\n">>

lnLower == <<"p", "w", "d", "\r", "\n">>

lnCrLf == <<"\r", "\n">>

lnBlank == <<" ", " ", "\r", "\n">>

UnknownLines == {lnXyzzy, lnLower, lnCrLf, lnBlank}

NextUnknown ==
  \/ \E line \in UnknownLines \cup {lnCwdD, lnPwd, lnQuit} : handle(line)
  \/ \E t \in Tasks : h_noop(t)
  \/ \E t \in Tasks : h_cwd(t)
  \/ \E t \in Tasks : h_pwd(t)
  \/ \E t \in Tasks : h_quit(t)

SpecUnknown == Init /\ [][NextUnknown]_vars

\* C17: a line whose verb is no command, the empty and the blank line
\* included, is taken in as NOOP (here every line read is one of those or a
\* CWD, a PWD or a QUIT); the actor that read it is not brought down, and a
\* NOOP is answered with "200 NOOP ok." and nothing else.
C17_UnknownIsNoop ==
  /\ \A t \in Tasks : task[t].cmd.verb \in {"NOOP", "CWD", "PWD", "QUIT"}
  /\ actor # "panicked"
  /\ \A t \in Tasks : task[t].cmd.verb = "NOOP" =>
       \A i \in RepliesTo(t) : ctrl[i].code = 200 /\ ctrl[i].text = "NOOP ok."

(***************************************************************************)
(* A client that stores a file and fetches it again, one command at a time *)
(* and each after the last reply to the one before, with a data connection *)
(* of its own for each transfer.                                           *)
(***************************************************************************)
RoundLen == 3

\* what the client stores: every sequence of at most RoundLen bytes
RoundData == UNION {[1..n -> DataBytes] : n \in 0..RoundLen}

\* the data peer writes all it has to send at once
PeerSendAll(s, d) ==
  /\ s \in DOMAIN sock
  /\ ~sock[s].closed
  /\ sock[s].peer = "open"
  /\ sock[s].sent = 0
  /\ d # <<>>
  /\ sock' = [sock EXCEPT ![s].inq = d, ![s].sent = Len(d), ![s].all = d]
  /\ UNCHANGED <<actor, client, inMap, user, ulock, clock, ctlOpen, ctrl, task, lsn, fsys>>

RoundScript == <<lnPort, lnStorG, lnPort, lnRetrG>>

\* the next line of the script is read once no handler is running
RoundCommand ==
  /\ Running = {}
  /\ Len(task) < Len(RoundScript)
  /\ handle_within(RoundScript[Len(task) + 1], Len(RoundScript))

NextRound ==
  \/ RoundCommand
  \/ \E t \in Tasks : dispatch_error(t)
  \/ \E t \in Tasks : h_port_mode(t)
  \/ \E t \in Tasks : h_store_file(t)
  \/ \E t \in Tasks : h_retrieve(t)
  \/ \E s \in DOMAIN sock, b \in DataBytes : PeerSend(s, b)
  \/ \E s \in DOMAIN sock, d \in RoundData : PeerSendAll(s, d)
  \/ \E s \in DOMAIN sock : PeerClose(s)

SpecRound == Init /\ [][NextRound]_vars

\* the replies to t are a 150 line and then "226 Transfer complete."
Completed(t) ==
  \E i \in DOMAIN ctrl, j \in DOMAIN ctrl :
    /\ i < j
    /\ RepliesTo(t) = {i, j}
    /\ ctrl[i].code = 150
    /\ ctrl[j].code = 226 /\ ctrl[j].text = "Transfer complete."

\* the script was run to its end over two data connections, the first of
\* which the peer closed after it had sent its data
RoundDone ==
  /\ Len(task) = Len(RoundScript)
  /\ task[4].pc = "done"
  /\ {1, 3} \subseteq DOMAIN sock
  /\ sock[1].peer = "eof"

\* C18: STOR of the bytes D to a path that did not exist, then RETR of that
\* path on a new data connection, sends exactly D to the second connection,
\* and each of the two transfers is answered 150 and "226 Transfer
\* complete.", whatever D is and in however many reads it arrives.
C18_StoreThenRetrieve ==
  RoundDone =>
    /\ sock[3].out = sock[1].all
    /\ Completed(2)
    /\ Completed(4)

\* a file longer than one block went there and back
C18_LongRoundTrip ==
  /\ RoundDone
  /\ Len(sock[1].all) > BlockSize
  /\ sock[3].out = sock[1].all

(***************************************************************************)
(* REST and the RETR after it.                                             *)
(***************************************************************************)
lnRest1 == <<"R", "E", "S", "T", " ", "1", "\r", "\n">>

\* Server::restart.  The offset is the number the parsed command carries;
\* the REST arm of parse_command builds the command without looking at the
\* argument, so that number is 0 whatever the line says
h_restart(t) ==
  /\ t \in Tasks
  /\ CASE task[t].pc = "restart" ->
            /\ ulock = 0
            /\ ctrl' = ctrl
            /\ IF user.session.sid = 0
               THEN /\ task' = [task EXCEPT ![t] = Failed(t, "No session found")]
                    /\ UNCHANGED <<user, ulock>>
               ELSE /\ user' = [user EXCEPT !.session.offset = task[t].cmd.n]
                    /\ ulock' = t
                    /\ task' = [task EXCEPT ![t] = Goto(t, "restart:say")]
       [] task[t].pc = "restart:say" ->
            /\ WriteCtl(t, <<Reply(t, 350,
                               "Requested file action pending further information.")>>,
                        Finished(t), TRUE)
            /\ user' = user
       [] OTHER -> FALSE
  /\ UNCHANGED <<actor, client, inMap, clock, ctlOpen, sock, lsn, fsys>>

\* a client that sets a restart offset and fetches the file /r/f, each
\* command after the reply to the one before
RestScript == <<lnPort, lnRest1, lnRetrF>>

RestCommand ==
  /\ Running = {}
  /\ Len(task) < Len(RestScript)
  /\ handle_within(RestScript[Len(task) + 1], Len(RestScript))

NextRest ==
  \/ RestCommand
  \/ \E t \in Tasks : dispatch_error(t)
  \/ \E t \in Tasks : h_port_mode(t)
  \/ \E t \in Tasks : h_restart(t)
  \/ \E t \in Tasks : h_retrieve(t)
  \/ \E s \in DOMAIN sock, b \in DataBytes : PeerSend(s, b)
  \/ \E s \in DOMAIN sock : PeerClose(s)

SpecRest == Init /\ [][NextRest]_vars

\* C19: after "REST 1" was answered 350, the RETR of the three-byte file
\* /r/f that ends with "226 Transfer complete." has sent the file's bytes
\* from the second on, and no others.
C19_RestartOffsetUsed ==
  (/\ Len(task) = Len(RestScript)
   /\ \E i \in RepliesTo(2) : ctrl[i].code = 350
   /\ Completed(3)) =>
    sock[1].out = SubSeq(InitFs.files[<<nR, nF>>], 2, Len(InitFs.files[<<nR, nF>>]))

(***************************************************************************)
(* RNFR and RNTO.                                                          *)
(***************************************************************************)
lnRnfrF == <<"R", "N", "F", "R", " ", "f", "\r", "\n">>

lnRntoG == <<"R", "N", "T", "O", " ", "g", "\r", "\n">>

\* fs::rename of the path old to the path new: a file takes the place of a
\* file or of nothing, a directory that of an empty directory or of nothing,
\* with all that lies under it; a directory cannot go under itself
Rename(fs, old, new) ==
  LET src == Resolve(fs, old)
      dst == NewLoc(fs, new)
      Moved(loc) ==
        IF IsPrefix(src.loc, loc)
        THEN dst.loc \o SubSeq(loc, Len(src.loc) + 1, Len(loc))
        ELSE loc
      kept == DOMAIN fs.files \ {dst.loc}
      failed == [ok |-> FALSE, fs |-> fs] IN
  IF ~src.ok \/ ~dst.ok \/ src.loc = <<>> THEN failed
  ELSE IF src.loc = dst.loc THEN [ok |-> TRUE, fs |-> fs]
  ELSE IF IsFile(fs, src.loc) /\ IsDir(fs, dst.loc) THEN failed
  ELSE IF IsDir(fs, src.loc)
          /\ (\/ IsFile(fs, dst.loc)
              \/ IsDir(fs, dst.loc) /\ Children(fs, dst.loc) # {}
              \/ IsPrefix(src.loc, dst.loc)) THEN failed
  ELSE [ok |-> TRUE,
        fs |-> [dirs  |-> {Moved(d) : d \in fs.dirs},
                files |-> [g \in {Moved(f) : f \in kept} |->
                             fs.files[CHOOSE f \in kept : Moved(f) = g]]]]

\* Server::rename_from: the name is put into the session's file_name
h_rename_from(t) ==
  /\ t \in Tasks
  /\ CASE task[t].pc = "rename_from" ->
            /\ ulock = 0
            /\ ctrl' = ctrl
            /\ IF user.session.sid = 0
               THEN /\ task' = [task EXCEPT ![t] = Failed(t, "No session found")]
                    /\ UNCHANGED <<user, ulock>>
               ELSE /\ user' = [user EXCEPT !.session.file_name = task[t].cmd.arg]
                    /\ ulock' = t
                    /\ task' = [task EXCEPT ![t] = Goto(t, "rename_from:say")]
       [] task[t].pc = "rename_from:say" ->
            /\ WriteCtl(t, <<Reply(t, 350,
                               "Requested file action pending further information.")>>,
                        Finished(t), TRUE)
            /\ user' = user
       [] OTHER -> FALSE
  /\ UNCHANGED <<actor, client, inMap, clock, ctlOpen, sock, lsn, fsys>>

\* Server::rename_to: the source is whatever the session's file_name holds
h_rename_to(t) ==
  /\ t \in Tasks
  /\ LET done == Rename(fsys, UserPath(user.session.file_name),
                        UserPath(task[t].cmd.arg)) IN
     CASE task[t].pc = "rename_to" ->
            /\ ulock = 0
            /\ ctrl' = ctrl
            /\ IF user.session.sid = 0
               THEN /\ task' = [task EXCEPT ![t] = Failed(t, "No session found")]
                    /\ UNCHANGED <<user, ulock, fsys>>
               ELSE IF ~done.ok
               THEN /\ task' = [task EXCEPT ![t] = Failed(t, "No such file or directory")]
                    /\ UNCHANGED <<user, ulock, fsys>>
               ELSE /\ fsys' = done.fs
                    /\ user' = [user EXCEPT !.session.file_name = task[t].cmd.arg]
                    /\ ulock' = t
                    /\ task' = [task EXCEPT ![t] = Goto(t, "rename_to:say")]
       [] task[t].pc = "rename_to:say" ->
            /\ WriteCtl(t, <<Reply(t, 250, "Requested file action okay, completed.")>>,
                        Finished(t), TRUE)
            /\ UNCHANGED <<user, fsys>>
       [] OTHER -> FALSE
  /\ UNCHANGED <<actor, client, inMap, clock, ctlOpen, sock, lsn>>

RenameLines == {lnPort, lnRetrF, lnRnfrF, lnRntoG}

NextRename ==
  \/ \E line \in RenameLines : handle(line)
  \/ \E t \in Tasks : dispatch_error(t)
  \/ \E t \in Tasks : h_port_mode(t)
  \/ \E t \in Tasks : h_retrieve(t)
  \/ \E t \in Tasks : h_rename_from(t)
  \/ \E t \in Tasks : h_rename_to(t)

SpecRename == Init /\ [][NextRename]_vars

\* the commands RNFR that were answered 350
Pending == {k \in Tasks : task[k].cmd.verb = "RNFR" /\ \E i \in RepliesTo(k) : ctrl[i].code = 350}

\* C20: a rename needs a RNFR that was accepted: while no RNFR was answered
\* 350 no file or directory has changed, and a RNTO received with no such
\* RNFR before it is answered "503 Bad sequence of commands." and nothing
\* else.
C20_RenameNeedsRnfr ==
  /\ Pending = {} => fsys = InitFs
  /\ \A t \in Tasks :
       (task[t].cmd.verb = "RNTO" /\ \A k \in Pending : k > t) =>
         \A i \in RepliesTo(t) :
           ctrl[i].code = 503 /\ ctrl[i].text = "Bad sequence of commands."


(***************************************************************************)
(* Logging in: USER, PASS, and the other writer of User.status, ABOR (with  *)
(* PORT, which gives ABOR a session to mark).                              *)
(***************************************************************************)
lnUserB == <<"U", "S", "E", "R", " ", "b", "\r", "\n">>

lnPassY == <<"P", "A", "S", "S", " ", "y", "\r", "\n">>

AuthLines == {lnUser, lnUserB, lnPass, lnPassY, lnPort, lnAbor, lnNoop, lnQuit}

NextAuth ==
  \/ \E line \in AuthLines : handle(line)
  \/ \E t \in Tasks : dispatch_error(t)
  \/ \E t \in Tasks : h_user(t)
  \/ \E t \in Tasks : h_pass(t)
  \/ \E t \in Tasks : h_port_mode(t)
  \/ \E t \in Tasks : h_abort(t)
  \/ \E t \in Tasks : h_noop(t)
  \/ \E t \in Tasks : h_quit(t)

SpecAuth == Init /\ [][NextAuth]_vars

\* the handler of the command t leaves its first arm, whose pc is entry
Enters(t, entry) == task[t].pc = entry /\ task'[t].pc # entry

\* C21: USER u is answered 331 and sets the status Logging, PASS p is
\* answered "230 User logged in, proceed." and sets the status Active, for
\* every u and p; the status is one of Inactive, Logging, Active, and it
\* becomes Active only through PASS.
C21_AnyLoginAccepted ==
  /\ [](user.status \in {"Inactive", "Logging", "Active"})
  /\ [](\A i \in DOMAIN ctrl : ctrl[i].id \in Tasks =>
          /\ task[ctrl[i].id].cmd.verb = "USER" =>
               ctrl[i].code = 331 /\ ctrl[i].text = "User name okay, need password."
          /\ task[ctrl[i].id].cmd.verb = "PASS" =>
               ctrl[i].code = 230 /\ ctrl[i].text = "User logged in, proceed.")
  /\ [][/\ \A t \in Tasks :
             /\ Enters(t, "user") =>
                  user'.status = "Logging" /\ user'.username = task[t].cmd.arg
             /\ Enters(t, "pass") => user'.status = "Active"
        /\ (user.status # "Active" /\ user'.status = "Active") =>
             \E t \in Tasks : Enters(t, "pass")]_vars


(***************************************************************************)
(* CWD with a target that begins with "/".                                 *)
(***************************************************************************)
lnCwdAbsD == <<"C", "W", "D", " ", "/", "d", "\r", "\n">>

lnCwdAbsG == <<"C", "W", "D", " ", "/", "g", "\r", "\n">>

AbsLines == {lnMkdG, lnCwdD, lnCwdAbsD, lnCwdAbsG, lnCwdSlash, lnCwdAbsE}

NextAbs ==
  \/ \E line \in AbsLines : handle(line)
  \/ \E t \in Tasks : h_make_dir(t)
  \/ \E t \in Tasks : h_cwd(t)

SpecAbs == Init /\ [][NextAbs]_vars

\* the directory that root joined with the working directory p denotes
Denoted(fs, p) == Resolve(fs, PathJoin(root, p))

\* the directory a target that begins with "/" names, taken from root
FromRoot(fs, target) ==
  LET rest == TrimStartMatches(target, "/") IN
  IF rest = <<>> THEN Resolve(fs, root) ELSE Resolve(fs, PathJoin(root, rest))

\* C22: a CWD target that begins with "/" is resolved relative to root, from
\* any working directory: "CWD /D" for an existing directory D under root
\* leaves the working directory equal to D, "CWD /" sets it to root, and a
\* target that names no directory under root fails and changes nothing.
C22_LeadingSlashIsRoot ==
  [][\A t \in Tasks :
       (Enters(t, "cwd") /\ task[t].cmd.verb = "CWD" /\ IsAbsolute(task[t].cmd.arg)) =>
         LET to == FromRoot(fsys, task[t].cmd.arg) IN
         IF to.ok /\ IsDir(fsys, to.loc) /\ InsideRoot(to.loc)
         THEN Denoted(fsys, user'.pwd) = to
         ELSE user'.pwd = user.pwd /\ task'[t].pc = "cwd:err"]_vars


(***************************************************************************)
(* The working directory that CWD stores and PWD reports.                  *)
(***************************************************************************)
lnMkdR == <<"M", "K", "D", " ", "r", "\r", "\n">>

lnCwdR == <<"C", "W", "D", " ", "r", "\r", "\n">>

lnCwdDot == <<"C", "W", "D", " ", ".", "\r", "\n">>

PathLines == {lnMkdR, lnCwdR, lnCwdD, lnCwdUp, lnCwdDot, lnPwd}

NextPath ==
  \/ \E line \in PathLines : handle(line)
  \/ \E t \in Tasks : h_make_dir(t)
  \/ \E t \in Tasks : h_cwd(t)
  \/ \E t \in Tasks : h_pwd(t)

SpecPath == Init /\ [][NextPath]_vars

\* C23: after a successful CWD to a target, root joined with the stored
\* working directory denotes the directory canonicalise(root + P_old + target)
\* names, for every directory under root ("." being a no-op), and PWD
\* reports 257 with the stored working directory.
C23_CwdStoresCanonical ==
  [][(\A t \in Tasks :
        (Enters(t, "cwd") /\ task'[t].pc \in {"cwd:ok", "cwd:same"}) =>
          LET to == Resolve(fsys, UserPath(task[t].cmd.arg)) IN
          /\ to.ok /\ InsideRoot(to.loc)
          /\ Denoted(fsys, user'.pwd) = to
          /\ task[t].cmd.arg = Dot => user'.pwd = user.pwd)
     /\ (\A k \in Tasks :
           (task[k].pc = "pwd:say" /\ Len(ctrl') > Len(ctrl)) =>
             /\ ctrl'[Len(ctrl')].code = 257
             /\ ctrl'[Len(ctrl')].arg = user.pwd)]_vars


(***************************************************************************)
(* CDUP at root and below it.                                              *)
(***************************************************************************)
UpLines == {lnCwdD, lnCwdSlash, lnCdup}

NextUp ==
  \/ \E line \in UpLines : handle(line)
  \/ \E t \in Tasks : h_cwd(t)
  \/ \E t \in Tasks : h_cd_up(t)

SpecUp == Init /\ [][NextUp]_vars

AtRoot(p) == Denoted(fsys, p) = [ok |-> TRUE, loc |-> <<nR>>]

BelowRoot(p) ==
  LET at == Denoted(fsys, p) IN at.ok /\ InsideRoot(at.loc) /\ Len(at.loc) = 2

\* C24: CDUP issued when the working directory is root leaves it at root, and
\* CDUP from a directory one level below root moves it to root; no later step
\* of the handler moves it again.
C24_CdupStopsAtRoot ==
  [][\A t \in Tasks :
       /\ (Enters(t, "cd_up") /\ (AtRoot(user.pwd) \/ BelowRoot(user.pwd))) =>
            AtRoot(user'.pwd)
       /\ (task[t].pc \in {"cd_up:ok", "cd_up:deny"} /\ task'[t] # task[t]) =>
            user'.pwd = user.pwd]_vars

\* CWD d was answered 250, CDUP ran after it and the working directory is
\* root again
C24_WentUp ==
  /\ Len(task) = 2
  /\ task[1].cmd.verb = "CWD" /\ task[1].cmd.arg = nD /\ task[1].pc = "done"
  /\ task[2].cmd.verb = "CDUP" /\ task[2].pc = "done"
  /\ \E i \in RepliesTo(1) : ctrl[i].code = 250
  /\ user.pwd = Dot


\* the errors that reading, writing or shutting down a data socket returns
DataErrors ==
  {"Broken pipe", "Connection reset by peer", "Transport endpoint is not connected"}

\* the transfer t has failed on its data socket and the failure is not yet
\* answered
DataFailure(t) ==
  /\ task[t].cmd.verb \in DataVerbs
  /\ task[t].pc = "fail"
  /\ task[t].err \in DataErrors

\* C25: a data-channel I/O failure during a transfer is not fatal for the
\* control channel: the transfer ends with the reply "426 Connection closed;
\* transfer aborted.", the session is dropped, and the control connection
\* goes on taking commands.
C25_DataFailureIs426 ==
  /\ [](actor # "panicked")
  /\ [][\A t \in Tasks :
          (DataFailure(t) /\ task'[t].pc = "done" /\ ctlOpen) =>
             /\ ctrl' = Append(ctrl, Reply(t, 426, "Connection closed; transfer aborted."))
             /\ user'.session.sid = 0]_vars


\* C26: ABOR changes nothing but the aborted flag of the current session: the
\* control connection stays open, and the User's status, username, working
\* directory and transfer type and the session's file name and offset stay
\* as they were.
C26_AborOnlySetsFlag ==
  [][\A t \in Tasks :
       (task[t].cmd.verb = "ABOR" /\ task'[t] # task[t] /\ user.session.sid # 0) =>
          /\ user' = [user EXCEPT !.session.aborted = user'.session.aborted]
          /\ Enters(t, "abort") => user'.session.aborted
          /\ ctlOpen' = ctlOpen
          /\ actor' = actor]_vars


\* the command t was answered 550
Refused(t) == \E i \in RepliesTo(t) : ctrl[i].code = 550

\* C27: a STOR whose target is a directory, or is a file while the session
\* offset is 0, is refused with 550, reads no bytes from the data channel
\* and leaves the target as it was: once the 550 is written the command
\* takes nothing from a data socket and changes no file, and it writes no
\* further reply.
C27_RefusedStoreReadsNothing ==
  [][\A t \in Tasks :
       (task[t].cmd.verb = "STOR" /\ Refused(t) /\ task'[t] # task[t]) =>
          /\ \A s \in DOMAIN sock : sock'[s].inq = sock[s].inq
          /\ fsys' = fsys
          /\ ctrl' = ctrl]_vars


(***************************************************************************)
(* APPE: a client that sends PORT, waits for its reply, sends APPE for the *)
(* file f, which exists, or for g, which does not, and then sends its data *)
(* and closes the data connection.                                         *)
(***************************************************************************)
lnAppeG == <<"A", "P", "P", "E", " ", "g", "\r", "\n">>

AppeCommand ==
  /\ Running = {}
  /\ \E line \in (IF task = <<>> THEN {lnPort} ELSE {lnAppeF, lnAppeG}) :
       handle_within(line, 2)

NextAppe ==
  \/ AppeCommand
  \/ \E t \in Tasks : dispatch_error(t)
  \/ \E t \in Tasks : h_port_mode(t)
  \/ \E t \in Tasks : h_append(t)
  \/ \E t \in Tasks : h_store_file(t)
  \/ \E s \in DOMAIN sock, b \in DataBytes : PeerSend(s, b)
  \/ \E s \in DOMAIN sock : PeerClose(s)

SpecAppe == Init /\ [][NextAppe]_vars

\* what the file named name held before the connection, <<>> if there was none
Before(name) ==
  IF IsFile(InitFs, <<nR, name>>) THEN InitFs.files[<<nR, name>>] ELSE <<>>

\* C28: APPE appends.  When the client has sent its data D and closed the
\* data connection and the handling of 'APPE f' has ended, the command is
\* completed with 150 and 226 and the file holds what it held before
\* followed by D; a file that did not exist holds D.
C28_AppendAppends ==
  (/\ Len(task) = 2
   /\ task[2].cmd.verb = "APPE"
   /\ task[2].pc = "done"
   /\ 1 \in DOMAIN sock /\ sock[1].peer = "eof") =>
     /\ Completed(2)
     /\ IsFile(fsys, <<nR, task[2].cmd.arg>>)
     /\ fsys.files[<<nR, task[2].cmd.arg>>] = Before(task[2].cmd.arg) \o sock[1].all


(***************************************************************************)
(* Command lines whose argument does not parse.                            *)
(***************************************************************************)
lnPortShort == <<"P", "O", "R", "T", " ", "1", ",", "2", ",", "3", "\r", "\n">>

lnPortBig ==
  <<"P", "O", "R", "T", " ", "1", ",", "2", ",", "3", ",", "4", ",", "5", ",",
    "2", "5", "6", "\r", "\n">>

lnAlloX == <<"A", "L", "L", "O", " ", "x", "\r", "\n">>

lnAlloNone == <<"A", "L", "L", "O", "\r", "\n">>

BadLines == {lnPortShort, lnPortBig, lnAlloX, lnAlloNone}

NextBad ==
  \/ \E line \in BadLines \cup {lnPort, lnNoop, lnPwd} : handle(line)
  \/ \E t \in Tasks : dispatch_error(t)
  \/ \E t \in Tasks : h_port_mode(t)
  \/ \E t \in Tasks : h_noop(t)
  \/ \E t \in Tasks : h_pwd(t)

SpecBad == Init /\ [][NextBad]_vars

\* C29: a command whose argument is malformed (a PORT argument that is not
\* six decimal bytes, an ALLO argument that is not a decimal u64) does not
\* bring down the actor that reads the commands; it is answered 500 or 501
\* and leaves the User as it was.
C29_MalformedIsAnswered ==
  /\ actor # "panicked"
  /\ \A t \in Tasks : task[t].cmd.verb = "PANIC" =>
       /\ RepliesTo(t) # {}
       /\ \A i \in RepliesTo(t) : ctrl[i].code \in {500, 501}


(***************************************************************************)
(* Verbs in lower and mixed case.                                          *)
(***************************************************************************)
lnUserLower == <<"u", "s", "e", "r", " ", "a", "\r", "\n">>

lnCwdMixed == <<"C", "w", "d", " ", "d", "\r", "\n">>

CaseLines == {lnLower, lnCwdMixed, lnUserLower, lnPwd, lnCwdD, lnUser}

NextCase ==
  \/ \E line \in CaseLines : handle(line)
  \/ \E t \in Tasks : h_noop(t)
  \/ \E t \in Tasks : h_pwd(t)
  \/ \E t \in Tasks : h_cwd(t)
  \/ \E t \in Tasks : h_user(t)

SpecCase == Init /\ [][NextCase]_vars

LowerLetters ==
  <<"a", "b", "c", "d", "e", "f", "g", "h", "i", "j", "k", "l", "m",
    "n", "o", "p", "q", "r", "s", "t", "u", "v", "w", "x", "y", "z">>

UpperLetters ==
  <<"A", "B", "C", "D", "E", "F", "G", "H", "I", "J", "K", "L", "M",
    "N", "O", "P", "Q", "R", "S", "T", "U", "V", "W", "X", "Y", "Z">>

ToUpper(c) ==
  IF \E i \in 1..26 : LowerLetters[i] = c
  THEN UpperLetters[CHOOSE i \in 1..26 : LowerLetters[i] = c]
  ELSE c

\* the line with its verb, the text before the first blank or line end, in
\* upper case
RECURSIVE UpperVerb(_)
UpperVerb(line) ==
  IF line = <<>> \/ Head(line) \in {" ", "\r", "\n"} THEN line
  ELSE <<ToUpper(Head(line))>> \o UpperVerb(Tail(line))

\* C30: verbs are matched without regard to case: every command taken in is
\* what the upper-case spelling of a line the client sends parses to (the
\* client sends PWD, CWD d and USER a in upper, lower and mixed case).
C30_VerbCaseIgnored ==
  \A t \in Tasks : \E line \in CaseLines : task[t].cmd = parse_command(UpperVerb(line))


(***************************************************************************)
(* Arguments with more than one blank.                                     *)
(***************************************************************************)
lnUserTwo == <<"U", "S", "E", "R", " ", "a", " ", " ", "b", "\r", "\n">>

lnUserLead == <<"U", "S", "E", "R", " ", " ", "c", "\r", "\n">>

ArgLines == {lnUserTwo, lnUserLead, lnUserB, lnStat}

NextArg ==
  \/ \E line \in ArgLines : handle(line)
  \/ \E t \in Tasks : h_user(t)
  \/ \E t \in Tasks : h_status(t)

SpecArg == Init /\ [][NextArg]_vars

\* the line without its line end
RECURSIVE StripCrLf(_)
StripCrLf(line) ==
  IF line # <<>> /\ Last(line) \in {"\r", "\n"} THEN StripCrLf(Front(line)) ELSE line

\* the text before the first blank of s
RECURSIVE VerbOf(_)
VerbOf(s) ==
  IF s = <<>> \/ Head(s) = " " THEN <<>> ELSE <<Head(s)>> \o VerbOf(Tail(s))

\* the text after the first blank of the line, as it was sent
Verbatim(line) ==
  LET s == StripCrLf(line) IN
  IF Len(VerbOf(s)) = Len(s) THEN <<>> ELSE SubSeq(s, Len(VerbOf(s)) + 2, Len(s))

\* C31: the argument of a parsed command is the text after the first blank
\* that follows the verb, as sent, with its leading, trailing and repeated
\* blanks; STAT with no text after the verb has no argument.
C31_ArgumentVerbatim ==
  \A t \in Tasks : \E line \in ArgLines :
    /\ parse_command(VerbOf(StripCrLf(line))).verb = task[t].cmd.verb
    /\ task[t].cmd.arg = Verbatim(line)
    /\ task[t].cmd.verb = "STAT" => ~task[t].cmd.some


(***************************************************************************)
(* PORT with the smallest and the largest bytes: a client that sends the   *)
(* PORT commands of PortInputs one after the other.                        *)
(***************************************************************************)
PortInputs ==
  <<<<0, 0, 0, 0, 0, 0>>, <<127, 0, 0, 1, 1, 0>>, <<10, 9, 8, 7, 0, 255>>,
    <<1, 2, 3, 4, 128, 1>>, <<255, 255, 255, 255, 255, 255>>>>

\* the line "PORT h1,h2,h3,h4,p1,p2"
PortLine(x) ==
  <<"P", "O", "R", "T", " ">>
    \o JoinWith([i \in 1..6 |-> DecStr(x[i])], <<",">>) \o <<"\r", "\n">>

PortCommand ==
  /\ Len(task) < Len(PortInputs)
  /\ handle_within(PortLine(PortInputs[Len(task) + 1]), Len(PortInputs))

NextPort ==
  \/ PortCommand
  \/ \E t \in Tasks : dispatch_error(t)
  \/ \E t \in Tasks : h_port_mode(t)

SpecPort == Init /\ [][NextPort]_vars

\* C32: PORT decoding is exact: for the bytes h1,h2,h3,h4,p1,p2 of the line
\* the parsed address is h1.h2.h3.h4 and the port is p1*256+p2, with no
\* wrap-around in 16 bits.
C32_PortExact ==
  \A t \in Tasks :
    LET x == PortInputs[t] IN
    /\ task[t].cmd.verb = "PORT"
    /\ task[t].cmd.ip = SubSeq(x, 1, 4)
    /\ task[t].cmd.n = x[5] * 256 + x[6]
    /\ task[t].cmd.n <= 65535

\* the largest address and port were taken in and the connection was made
C32_LargestPort ==
  /\ Len(task) = 5
  /\ task[5].cmd.n = 65535
  /\ \E i \in RepliesTo(5) : ctrl[i].code = 200


(***************************************************************************)
(* PASV: the address the 227 reply names and the listener that was bound.  *)
(***************************************************************************)
NextPasv ==
  \/ \E line \in {lnPasv, lnNoop} : handle(line)
  \/ \E t \in Tasks : h_noop(t)
  \/ \E t \in Tasks : h_passive_mode(t)
  \/ \E k \in DOMAIN lsn : PeerConnect(k)
  \/ \E k \in DOMAIN lsn : pasv_accept(k)

SpecPasv == Init /\ [][NextPasv]_vars

\* Server.host as the four bytes of an address
HostBytes == <<127, 0, 0, 1>>

\* C33: the 227 reply to PASV names the listener that was bound: decoded by
\* the rule of PORT, its six numbers give the listener's address and the
\* port on which the accept waits, and every PASV that was answered has
\* such a listener.
C33_PasvNamesListener ==
  \A i \in DOMAIN ctrl : ctrl[i].code = 227 =>
    /\ ctrl[i].id \in DOMAIN lsn
    /\ ParsePort(ctrl[i].arg).verb = "PORT"
    /\ ParsePort(ctrl[i].arg).ip = HostBytes
    /\ ParsePort(ctrl[i].arg).n = lsn[ctrl[i].id].port

\* two listeners wait on different ports and both were announced
C33_TwoListeners ==
  \E i \in DOMAIN ctrl, j \in DOMAIN ctrl :
    /\ ctrl[i].code = 227 /\ ctrl[j].code = 227
    /\ lsn[ctrl[i].id].st = "listening" /\ lsn[ctrl[j].id].st = "listening"
    /\ lsn[ctrl[i].id].port # lsn[ctrl[j].id].port


(***************************************************************************)
(* Lines and reads: a client whose lines USER a, PASS x, NOOP, PWD reach   *)
(* the server in reads that do not end where the lines end.                *)
(***************************************************************************)
FrameLines == <<lnUser, lnPass, lnNoop, lnPwd>>

\* what the reads of the control socket return, one after the other
FrameReads ==
  <<lnUser \o lnPass, <<"N", "O">>, <<"O", "P", "\r", "\n">>, lnPwd>>

FrameRead ==
  /\ Len(task) < Len(FrameReads)
  /\ handle_within(FrameReads[Len(task) + 1], Len(FrameReads))

NextFrame ==
  \/ FrameRead
  \/ \E t \in Tasks : h_user(t)
  \/ \E t \in Tasks : h_noop(t)
  \/ \E t \in Tasks : h_pwd(t)

SpecFrame == Init /\ [][NextFrame]_vars

\* C34: every line that ends in CRLF is parsed and dispatched as one command,
\* however the reads cut the stream: the commands taken in are, in order,
\* the commands of the lines sent.
C34_OneCommandPerLine ==
  \A t \in Tasks :
    /\ t <= Len(FrameLines)
    /\ task[t].cmd = parse_command(FrameLines[t])


(***************************************************************************)
(* The two mutexes of a connection: LIST takes the control writer and then *)
(* the User, PWD takes the User and then the control writer.  The runtime  *)
(* runs every spawned task that can go on.                                 *)
(***************************************************************************)
NextLock ==
  \/ \E line \in {lnList, lnPwd} : handle(line)
  \/ \E t \in Tasks : dispatch_error(t)
  \/ \E t \in Tasks : h_list_files(t)
  \/ \E t \in Tasks : h_pwd(t)

SpecLock ==
  /\ Init /\ [][NextLock]_vars
  /\ \A t \in 1..MaxCmds :
       /\ WF_vars(dispatch_error(t))
       /\ WF_vars(h_list_files(t))
       /\ WF_vars(h_pwd(t))

\* C35: the handlers of one connection do not deadlock on the control
\* writer's mutex and the User mutex: whenever commands are being handled,
\* all of them are completed in the end.
C35_HandlersComplete == (Running # {}) ~> (Running = {})


\* C36: a session installed by the accept task of a PASV belongs to the most
\* recent PORT or PASV: when the accept of the command k resolves after a
\* later command has installed its session, the newer session stays.
C36_LateAcceptKeepsNewer ==
  [][\A k \in DOMAIN lsn :
       (lsn[k].st = "connected" /\ lsn'[k].st = "done" /\ user.session.sid > k) =>
          user'.session = user.session]_vars


(***************************************************************************)
(* Transfers on a session that ABOR has marked: a client that sends PORT,  *)
(* ABOR, RETR f and STOR g, each after the last reply to the one before.   *)
(***************************************************************************)
AborScript == <<lnPort, lnAbor, lnRetrF, lnStorG>>

AborCommand ==
  /\ Running = {}
  /\ Len(task) < Len(AborScript)
  /\ handle_within(AborScript[Len(task) + 1], Len(AborScript))

NextAbor ==
  \/ AborCommand
  \/ \E t \in Tasks : dispatch_error(t)
  \/ \E t \in Tasks : h_port_mode(t)
  \/ \E t \in Tasks : h_abort(t)
  \/ \E t \in Tasks : h_retrieve(t)
  \/ \E t \in Tasks : h_store_file(t)
  \/ \E s \in DOMAIN sock, b \in DataBytes : PeerSend(s, b)
  \/ \E s \in DOMAIN sock : PeerReset(s)

SpecAbor == Init /\ [][NextAbor]_vars

\* the transfer t was answered 150 and then
\* "226 Connection closed; transfer aborted.", and nothing else
EndedAborted(t) ==
  \E i \in DOMAIN ctrl, j \in DOMAIN ctrl :
    /\ i < j
    /\ RepliesTo(t) = {i, j}
    /\ ctrl[i].code = 150
    /\ ctrl[j].code = 226 /\ ctrl[j].text = "Connection closed; transfer aborted."

\* C37: once ABOR has set the aborted flag of a session the flag stays set,
\* and every RETR or STOR started on that session afterwards moves no block
\* (nothing is sent on the data socket, nothing is stored) and ends with
\* "226 Connection closed; transfer aborted.".
C37_AbortedSessionStaysAborted ==
  (\E i \in RepliesTo(2) : ctrl[i].code = 226) =>
    /\ user.session.sid = 1 /\ user.session.aborted
    /\ sock[1].out = <<>>
    /\ \A loc \in DOMAIN fsys.files : loc \notin DOMAIN InitFs.files => fsys.files[loc] = <<>>
    /\ \A t \in Tasks : (t > 2 /\ task[t].pc = "done") => EndedAborted(t)


\* C38: a data connection carries at most one transfer: while the session's
\* finished flag is true no transfer command writes a 150 reply and nothing
\* more is sent on the session's socket.
C38_OneTransferPerSession ==
  [][(user.session.sid # 0 /\ user.session.finished) =>
       /\ \A i \in DOMAIN ctrl' : i > Len(ctrl) => ctrl'[i].code # 150
       /\ user.session.sid \in DOMAIN sock' =>
            /\ sock'[user.session.sid].out = sock[user.session.sid].out
            /\ sock'[user.session.sid].listing = sock[user.session.sid].listing]_vars


(***************************************************************************)
(* REST before the data connection: a client that sends REST 1, then PORT  *)
(* or PASV, then RETR f, each after the last reply to the one before.      *)
(***************************************************************************)
EarlyScript == <<{lnRest1}, {lnPort, lnPasv}, {lnRetrF}>>

EarlyCommand ==
  /\ Running = {}
  /\ Len(task) < Len(EarlyScript)
  /\ \E line \in EarlyScript[Len(task) + 1] : handle_within(line, Len(EarlyScript))

NextEarly ==
  \/ EarlyCommand
  \/ \E t \in Tasks : dispatch_error(t)
  \/ \E t \in Tasks : h_restart(t)
  \/ \E t \in Tasks : h_port_mode(t)
  \/ \E t \in Tasks : h_passive_mode(t)
  \/ \E k \in DOMAIN lsn : PeerConnect(k)
  \/ \E k \in DOMAIN lsn : pasv_accept(k)
  \/ \E t \in Tasks : h_retrieve(t)
  \/ \E s \in DOMAIN sock : PeerClose(s)
  \/ \E s \in DOMAIN sock : PeerReset(s)

SpecEarly == Init /\ [][NextEarly]_vars

\* C39: REST n is answered 350 whether or not a session exists, and its
\* offset holds for the next RETR although PORT or PASV comes between: once
\* REST 1 is handled its only reply is 350, and a RETR f that completes has
\* sent f from its second byte on.
C39_RestBeforePort ==
  /\ (1 \in Tasks /\ task[1].pc = "done") =>
       \E i \in DOMAIN ctrl : RepliesTo(1) = {i} /\ ctrl[i].code = 350
  /\ (Len(task) = Len(EarlyScript) /\ Completed(3)) =>
       sock[2].out = SubSeq(InitFs.files[<<nR, nF>>], 2, Len(InitFs.files[<<nR, nF>>]))


\* ---------------------------------------------------------------------------
\* Connections and the user map (server.rs 17-24, 50-57, 61-87, 106-113).
\* The map is keyed by the remote address.  Server::listen hands every accepted
\* socket to Server::handle, which greets and inserts a User only when the map
\* has no entry under the address; otherwise the connection goes on with the
\* entry it found.  The entry is removed by QUIT and by a failed read, and by
\* nothing else: a handle task that panicked leaves it behind.
\* handle_connect is Server::handle's prologue for a connection accepted from
\* the address of an earlier connection whose actor and tasks have ended.  The
\* control stream of the new connection continues the record ctrl.
\* ---------------------------------------------------------------------------
handle_connect ==
  /\ actor \in {"panicked", "done"}
  /\ Running = {}
  /\ Len(task) < MaxCmds
  /\ IF inMap
     THEN UNCHANGED <<inMap, user, ctrl, sock>>
     ELSE /\ inMap' = TRUE
          /\ user' = new_anonymous
          /\ ctrl' = Append(ctrl, Greeting)
          /\ sock' = Dropped
  /\ actor' = "read"
  /\ client' = "open"
  /\ ctlOpen' = TRUE
  /\ UNCHANGED <<ulock, clock, task, lsn, fsys>>

ConnLines == {lnCwdD, lnPwd, lnPortShort, lnQuit}

NextConn ==
  \/ \E line \in ConnLines : handle(line)
  \/ handle_connect
  \/ \E t \in 1..MaxCmds : h_cwd(t) \/ h_pwd(t) \/ h_quit(t)

SpecConn == Init /\ [][NextConn]_vars

\* C40: connections are isolated.  Every connection actor has a User of its
\* own in the user map: when an actor starts, the User it will work on is a
\* new anonymous one, which no command of another connection has changed, and
\* while the actor runs the map holds that User.
C40_ConnectionsIsolated ==
  /\ [](actor = "read" => inMap)
  /\ [][(actor # "read" /\ actor' = "read")
          => (inMap' /\ user' = new_anonymous)]_vars

====
